---- MODULE Spec2Model ----
(***************************************************************************)
(* A model of the RION codec of ferion: the lead-byte taxonomy (types.rs), *)
(* the field codec (field.rs), the typed object builder (object.rs) and    *)
(* the serde bridge (serde/ser/serializer.rs, serde/de/deserializer.rs).   *)
(*                                                                         *)
(* Bytes are integers 0..255 and byte slices are sequences.  Every codec   *)
(* operation is a pure function of its input, modelled as an operator that *)
(* returns a record whose field st is "ok", "err" (an Err result) or       *)
(* "panic" (the thread aborts: panic!, todo!, unreachable!, unwrap on      *)
(* None/Err, or a slice index out of range).                               *)
(***************************************************************************)
EXTENDS Integers, Sequences, FiniteSets, TLC

VARIABLES
    input,    \* the byte slice handed to a decoder
    hostTy,   \* the host type requested from from_bytes
    value,    \* the host value handed to to_bytes
    output,   \* the bytes produced by the last encode
    output2,  \* the bytes produced by re-encoding the decoded value
    res,      \* the result of the last decode / parse
    obj,      \* the typed RionObject builder: fields (key -> field), byte_len
    adds,     \* calls of add_field_bytes made on obj
    op        \* the operation that produced the current state

vars == <<input, hostTy, value, output, output2, res, obj, adds, op>>

\* The program's functions call one another by name, through Call (defined
\* after them): Call("f", <<a, b>>) is f(a, b).  TLC's statistics then hold
\* one node for each function and not one for each path of calls.
RECURSIVE Call(_, _)

----------------------------------------------------------------------------
(* Bounds of the model *)

\* longest raw byte sequence fed to the decoders
MaxInputLen == 3

\* most calls of add_field / add_field_bytes on one RionObject
MaxAdds == 2

----------------------------------------------------------------------------
(* Byte helpers *)

Hi(b) == b \div 16
Lo(b) == b % 16

Drop(s, n) == SubSeq(s, n + 1, Len(s))
Take(s, n) == SubSeq(s, 1, n)

Err(why) == [st |-> "err", e |-> why]
Panic(why) == [st |-> "panic", e |-> why]

----------------------------------------------------------------------------
(* types.rs *)

OBJECT == 12
TABLE == 11
ARRAY == 10
UTF8 == 5
BYTES == 0
KEY == 13
FLOAT == 4
UTC_DATE_TIME == 7
INT64_POSITIVE == 2
INT64_NEGATIVE == 3
UTF8_SHORT == 6
KEY_SHORT == 14
BOOL == 1

\* impl TryFrom<u8> for NormalRionType (the argument is the type nibble)
NormalTypeOf(nib) ==
    CASE nib = 0 -> "Bytes"
      [] nib = 5 -> "UTF8"
      [] nib = 10 -> "Array"
      [] nib = 11 -> "Table"
      [] nib = 12 -> "Object"
      [] nib = 13 -> "Key"

\* impl TryFrom<u8> for ShortRionType
ShortTypeOf(nib) ==
    CASE nib = 2 -> "Int64Positive"
      [] nib = 3 -> "Int64Negative"
      [] nib = 4 -> "Float"
      [] nib = 6 -> "UTF8"
      [] nib = 7 -> "UTCDateTime"
      [] nib = 14 -> "Key"

\* NormalRionType::to_byte / ShortRionType::to_byte
NormalToByte(ty) ==
    CASE ty = "Bytes" -> BYTES
      [] ty = "UTF8" -> UTF8
      [] ty = "Array" -> ARRAY
      [] ty = "Table" -> TABLE
      [] ty = "Object" -> OBJECT
      [] ty = "Key" -> KEY

ShortToByte(ty) ==
    CASE ty = "Int64Positive" -> INT64_POSITIVE
      [] ty = "Int64Negative" -> INT64_NEGATIVE
      [] ty = "Float" -> FLOAT
      [] ty = "UTF8" -> UTF8_SHORT
      [] ty = "UTCDateTime" -> UTC_DATE_TIME
      [] ty = "Key" -> KEY_SHORT

\* the selector the tiny arm of RionFieldType::try_from matches on:
\* (value & 0x30) >> 4
TinySelector(b) == (b \div 16) % 4

\* impl TryFrom<u8> for RionFieldType
FieldTypeOf(b) ==
    LET nib == Hi(b) IN
    IF nib = 1 THEN
        (CASE TinySelector(b) = 0 -> [st |-> "ok", fam |-> "Bool", ty |-> "None"]
           [] TinySelector(b) = 1 -> [st |-> "ok", fam |-> "Bool", ty |-> "False"]
           [] TinySelector(b) = 2 -> [st |-> "ok", fam |-> "Bool", ty |-> "True"]
           [] OTHER -> Err("Invalid field type"))
    ELSE IF nib = 15 THEN [st |-> "ok", fam |-> "Extended", ty |-> "Extended"]
    ELSE IF nib \in {0, 5, 10, 11, 12, 13}
        THEN [st |-> "ok", fam |-> "Normal", ty |-> NormalTypeOf(nib)]
    ELSE IF nib \in {2, 3, 4, 6, 7, 14}
        THEN [st |-> "ok", fam |-> "Short", ty |-> ShortTypeOf(nib)]
    ELSE Err("Invalid field type")

\* impl TryFrom<u8> for LeadByte: LeadByte(field type, the whole byte)
LeadOf(b) ==
    LET ft == FieldTypeOf(b) IN
    IF ft.st = "ok" THEN [st |-> "ok", fam |-> ft.fam, ty |-> ft.ty, byte |-> b]
    ELSE ft

\* LeadByte::length
LeadLength(lead) == IF lead.fam = "Bool" THEN 0 ELSE lead.byte % 16

\* LeadByte::is_null
LeadIsNull(lead) ==
    IF lead.fam = "Bool" /\ lead.ty = "None" THEN TRUE ELSE LeadLength(lead) = 0

\* RionFieldType::is_key / is_str / is_label
IsKeyType(ft) == ft.fam \in {"Short", "Normal"} /\ ft.ty = "Key"
IsStrType(ft) == ft.fam \in {"Short", "Normal"} /\ ft.ty = "UTF8"
IsLabelType(ft) == IsKeyType(ft) \/ IsStrType(ft)

----------------------------------------------------------------------------
(* Length primitives of the crate root *)

\* bytes_needed / needed_bytes_usize / num_needed_length
RECURSIVE needed_bytes_usize(_)
needed_bytes_usize(n) == IF n = 0 THEN 0 ELSE 1 + needed_bytes_usize(n \div 256)

\* int_to_bytes: the significant big-endian bytes of n, nothing for 0
RECURSIVE int_to_bytes(_)
int_to_bytes(n) == IF n = 0 THEN <<>> ELSE int_to_bytes(n \div 256) \o <<n % 256>>

RECURSIVE BigEndian(_)
BigEndian(bs) ==
    IF Len(bs) = 0 THEN 0 ELSE 256 * BigEndian(Take(bs, Len(bs) - 1)) + bs[Len(bs)]

\* bytes_to_uint: a big-endian u64; more than eight bytes do not fit
bytes_to_uint(bs) ==
    IF Len(bs) > 8 THEN Err("Data too large") ELSE [st |-> "ok", v |-> BigEndian(bs)]

\* get_lead_byte
get_lead_byte(data) ==
    IF Len(data) = 0 THEN Err("Data is empty")
    ELSE LET lead == LeadOf(data[1]) IN
         IF lead.st = "ok" THEN [st |-> "ok", lead |-> lead, rest |-> Drop(data, 1)]
         ELSE lead

\* get_header: the lead byte, the lead.length() bytes after it (the payload
\* of a short field, the length field of a normal one) and what follows.
\* &rest[..length_length] is an unchecked slice index.
get_header(data) ==
    LET h == get_lead_byte(data) IN
    IF h.st # "ok" THEN h
    ELSE LET ll == LeadLength(h.lead) IN
         IF ll > Len(h.rest) THEN Panic("get_header: slice index out of range")
         ELSE [st |-> "ok", lead |-> h.lead, length |-> Take(h.rest, ll),
               rest |-> Drop(h.rest, ll)]

\* get_normal_header: the header with the length field read as a big-endian
\* number, which has to fit a usize
get_normal_header(data) ==
    LET h == Call("get_header", <<data>>) IN
    IF h.st # "ok" THEN h
    ELSE IF Len(h.length) > 8 THEN Err("Data too large for this system!")
    ELSE [st |-> "ok", lead |-> h.lead, length |-> BigEndian(h.length), rest |-> h.rest]

----------------------------------------------------------------------------
(* field.rs *)

\* enum RionField: Bool(Option<bool>) | Short(ShortField) | Normal(NormalField)
BoolField(ty) == [kind |-> "Bool", ty |-> ty, data |-> <<>>]
ShortField(ty, data) == [kind |-> "Short", ty |-> ty, data |-> data]
NormalField(ty, data) == [kind |-> "Normal", ty |-> ty, data |-> data]

\* ShortField::new
ShortFieldNew(ty, data) ==
    IF Len(data) > 15 THEN Panic("Data too large for short field")
    ELSE [st |-> "ok", field |-> ShortField(ty, data)]

\* NormalField::new
NormalFieldNew(ty, data) ==
    IF needed_bytes_usize(Len(data)) > 15 THEN Panic("Data too large for normal field")
    ELSE [st |-> "ok", field |-> NormalField(ty, data)]

\* NormalField::parse(input, length_length, field_type)
NormalFieldParse(inp, length_length, ty) ==
    IF length_length >= 16 THEN Err("Length too large for normal field")
    ELSE IF length_length > Len(inp) THEN Err("Input too short for length field")
    ELSE IF length_length = 0
        THEN [st |-> "ok", field |-> NormalField(ty, <<>>), rest |-> inp]
    ELSE LET n == bytes_to_uint(Take(inp, length_length)) IN
         IF n.st # "ok" THEN n
         ELSE IF n.v > Len(inp) THEN Err("Input too short for data field")
         ELSE LET body == Drop(inp, length_length) IN
              IF n.v > Len(body) THEN Panic("NormalField::parse: slice index out of range")
              ELSE [st |-> "ok", field |-> NormalField(ty, Take(body, n.v)),
                    rest |-> Drop(body, n.v)]

\* RionField::parse
RionFieldParse(data) ==
    LET h == Call("get_header", <<data>>) IN
    IF h.st # "ok" THEN h
    ELSE CASE h.lead.fam = "Short" ->
                LET f == ShortFieldNew(h.lead.ty, h.length) IN
                IF f.st # "ok" THEN f
                ELSE [st |-> "ok", field |-> f.field, rest |-> h.rest]
           [] h.lead.fam = "Normal" ->
                LET n == bytes_to_uint(h.length) IN
                IF n.st # "ok" THEN n
                ELSE IF n.v > Len(h.rest)
                    THEN Panic("RionField::parse: slice index out of range")
                ELSE LET f == NormalFieldNew(h.lead.ty, Take(h.rest, n.v)) IN
                     IF f.st # "ok" THEN f
                     ELSE [st |-> "ok", field |-> f.field, rest |-> Drop(h.rest, n.v)]
           [] h.lead.fam = "Bool" ->
                [st |-> "ok", field |-> BoolField(h.lead.ty), rest |-> h.rest]
           [] h.lead.fam = "Extended" -> Panic("todo!()")

\* ShortField::extend / NormalField::extend / RionField::encode
RionFieldEncode(f) ==
    CASE f.kind = "Bool" ->
            <<BOOL * 16 + (CASE f.ty = "None" -> 0 [] f.ty = "False" -> 1 [] f.ty = "True" -> 2)>>
      [] f.kind = "Short" ->
            <<ShortToByte(f.ty) * 16 + Len(f.data)>> \o f.data
      [] f.kind = "Normal" ->
            <<NormalToByte(f.ty) * 16 + needed_bytes_usize(Len(f.data))>>
                \o int_to_bytes(Len(f.data)) \o f.data

\* RionField::needed_bytes
RionFieldNeededBytes(f) ==
    1 + (CASE f.kind = "Short" -> Len(f.data)
           [] f.kind = "Normal" -> Len(f.data) + needed_bytes_usize(Len(f.data))
           [] OTHER -> 0)

\* RionField::is_key
RionFieldIsKey(f) == f.kind \in {"Short", "Normal"} /\ f.ty = "Key"

\* RionField::key
RionFieldKey(key) ==
    IF Len(key) < 16 THEN ShortField("Key", key) ELSE NormalField("Key", key)

\* impl From<&str> for RionField
RionFieldFromStr(s) ==
    IF Len(s) = 0 THEN NormalField("UTF8", <<>>)
    ELSE IF Len(s) <= 15 THEN ShortField("UTF8", s)
    ELSE NormalField("UTF8", s)

\* impl From<String> for RionField
RionFieldFromString(s) ==
    IF Len(s) <= 15 THEN ShortField("UTF8", s) ELSE NormalField("UTF8", s)

\* impl From<u64> for RionField: the value 0 keeps one zero byte
RionFieldFromU64(n) ==
    ShortField("Int64Positive", IF n = 0 THEN <<0>> ELSE int_to_bytes(n))

\* impl From<i64> for RionField
RionFieldFromI64(v) ==
    LET ty == IF v < 0 THEN "Int64Negative" ELSE "Int64Positive"
        m == IF v < 0 THEN -(v + 1) ELSE v
    IN ShortField(ty, IF m = 0 THEN <<0>> ELSE int_to_bytes(m))

\* A 64-bit value as its to_be_bytes: eight bytes, most significant first.
\* u64::leading_zeros() / 8
RECURSIVE LeadingZeroBytes(_)
LeadingZeroBytes(w) ==
    IF Len(w) = 0 \/ w[1] # 0 THEN 0 ELSE 1 + LeadingZeroBytes(Drop(w, 1))

\* value == 0
IsZeroWord(w) == \A i \in 1..Len(w) : w[i] = 0

\* value + 1 in two's complement
RECURSIVE WordInc(_)
WordInc(w) ==
    IF Len(w) = 0 THEN <<>>
    ELSE IF w[Len(w)] < 255 THEN Take(w, Len(w) - 1) \o <<w[Len(w)] + 1>>
    ELSE WordInc(Take(w, Len(w) - 1)) \o <<0>>

\* -value in two's complement: the complement of every bit, plus one
WordNeg(w) == WordInc([i \in 1..Len(w) |-> 255 - w[i]])

\* value < 0 for an i64
WordIsNegative(w) == w[1] >= 128

\* impl From<u64> for RionField, at the full width of a u64
RionFieldFromU64Word(w) ==
    LET zeros == IF IsZeroWord(w) THEN 7 ELSE LeadingZeroBytes(w) IN
    ShortField("Int64Positive", Drop(w, zeros))

\* From<i64> storing the absolute value -value of a negative value instead
\* of -(value + 1)
RionFieldFromI64WordAbs(w) ==
    LET field_type == IF WordIsNegative(w) THEN "Int64Negative" ELSE "Int64Positive"
        magnitude == IF WordIsNegative(w) THEN WordNeg(w) ELSE w
        zeros == IF IsZeroWord(magnitude) THEN 7 ELSE LeadingZeroBytes(magnitude)
    IN ShortField(field_type, Drop(magnitude, zeros))

\* impl From<i64> for RionField, at the full width of an i64.  value + 1 is
\* taken of a negative value only and the negation of a value above i64::MIN
\* only, so neither overflows; magnitude is the shadowing `value`.
RionFieldFromI64Word(w) ==
    LET field_type == IF WordIsNegative(w) THEN "Int64Negative" ELSE "Int64Positive"
        magnitude == IF WordIsNegative(w) THEN WordNeg(WordInc(w)) ELSE w
        zeros == IF IsZeroWord(magnitude) THEN 7 ELSE LeadingZeroBytes(magnitude)
    IN ShortField(field_type, Drop(magnitude, zeros))

\* components.iter().rposition(|&x| x != 0).unwrap_or(0), 0-based
RECURSIVE LastNonZero(_, _)
LastNonZero(components, i) ==
    IF i = 0 THEN 0
    ELSE IF components[i] # 0 THEN i - 1
    ELSE LastNonZero(components, i - 1)

\* impl From<DateTime<Utc>> for RionField: the year is read and not written
RionFieldFromDateTime(dt) ==
    LET components == <<dt.month, dt.day, dt.hour, dt.minute, dt.second>>
        last_non_zero == LastNonZero(components, 5)
        nanos == dt.nanosecond
        micros == nanos \div 1000
        tail == IF nanos = 0 THEN <<>>
                ELSE IF nanos % 1000000 = 0
                    THEN <<((nanos \div 1000000) \div 256) % 256, (nanos \div 1000000) % 256>>
                ELSE IF nanos % 1000 = 0
                    THEN <<(micros \div 65536) % 256, (micros \div 256) % 256, micros % 256>>
                ELSE <<(nanos \div 16777216) % 256, (nanos \div 65536) % 256,
                       (nanos \div 256) % 256, nanos % 256>>
    IN ShortField("UTCDateTime", Take(components, last_non_zero + 1) \o tail)

\* impl From<bool> for RionField
RionFieldFromBool(b) == BoolField(IF b THEN "True" ELSE "False")

----------------------------------------------------------------------------
(* Host types and host values of the serde bridge *)

\* Rust types a caller can ask from_bytes for / hand to to_bytes
TBool == [k |-> "bool"]
TU64 == [k |-> "u64"]
TI64 == [k |-> "i64"]
TU8 == [k |-> "u8"]
TI8 == [k |-> "i8"]
TString == [k |-> "string"]
TUnit == [k |-> "unit"]
TIgnored == [k |-> "ignored"]
TOption(t) == [k |-> "option", of |-> t]
TVec(t) == [k |-> "vec", of |-> t]
TMap(kt, t) == [k |-> "map", key |-> kt, of |-> t]
TTuple(ts) == [k |-> "tuple", tys |-> ts]
\* a tuple struct: struct name(tys...)
TTupleStruct(name, ts) == [k |-> "tuple_struct", name |-> name, tys |-> ts]
TStruct(ns, ts) == [k |-> "struct", names |-> ns, tys |-> ts]
TIdent(ns) == [k |-> "ident", names |-> ns]
\* an enum: per variant its name, its kind ("unit", "newtype", "tuple",
\* "struct") and what it carries (a tuple type, a struct type)
TEnum(ns, ks, ts) == [k |-> "enum", names |-> ns, kinds |-> ks, tys |-> ts]

\* host values; each kind keeps its payload under a field of its own
VBool(b) == [k |-> "bool", b |-> b]
VInt(n) == [k |-> "int", n |-> n]
VStr(s) == [k |-> "str", s |-> s]
VUnit == [k |-> "unit"]
VNone == [k |-> "none"]
VSome(x) == [k |-> "some", some |-> x]
VSeq(xs) == [k |-> "seq", xs |-> xs]
VMap(f) == [k |-> "map", m |-> f]
VStruct(xs) == [k |-> "struct", fs |-> xs]
VIgnored == [k |-> "ignored"]
VIdent(i) == [k |-> "ident", i |-> i]
VEnum(i, x) == [k |-> "enum", variant |-> i, p |-> x]

Ok(val, rest) == [st |-> "ok", val |-> val, rest |-> rest]

\* HashMap::new
EmptyMap == [x \in {} |-> x]

\* HashMap::insert: a later value replaces an earlier one under the same key
MapInsert(m, key, val) ==
    [x \in (DOMAIN m) \cup {key} |-> IF x = key THEN val ELSE m[x]]

\* std::str::from_utf8(..).is_ok()
IsCont(b) == b >= 128 /\ b <= 191
RECURSIVE IsUtf8(_)
IsUtf8(bs) ==
    IF Len(bs) = 0 THEN TRUE
    ELSE LET b == bs[1] IN
         IF b < 128 THEN IsUtf8(Drop(bs, 1))
         ELSE IF b >= 194 /\ b <= 223
            THEN Len(bs) >= 2 /\ IsCont(bs[2]) /\ IsUtf8(Drop(bs, 2))
         ELSE IF b >= 224 /\ b <= 239
            THEN /\ Len(bs) >= 3
                 /\ IsCont(bs[2]) /\ IsCont(bs[3])
                 /\ (b = 224 => bs[2] >= 160)
                 /\ (b = 237 => bs[2] <= 159)
                 /\ IsUtf8(Drop(bs, 3))
         ELSE IF b >= 240 /\ b <= 244
            THEN /\ Len(bs) >= 4
                 /\ IsCont(bs[2]) /\ IsCont(bs[3]) /\ IsCont(bs[4])
                 /\ (b = 240 => bs[2] >= 144)
                 /\ (b = 244 => bs[2] <= 143)
                 /\ IsUtf8(Drop(bs, 4))
         ELSE FALSE

Position(names, name) ==
    IF \E i \in 1..Len(names) : names[i] = name
    THEN CHOOSE i \in 1..Len(names) : names[i] = name
    ELSE 0

----------------------------------------------------------------------------
(* serde visitors of the host types: what each accepts *)

\* A scalar visit (visit_none, visit_bool, visit_u64, visit_i64, visit_str,
\* visit_borrowed_bytes, visit_f32, visit_f64) delivered to the visitor of t.
VisitScalar(t, kind, payload) ==
    CASE t.k = "ignored" -> [st |-> "ok", val |-> VIgnored]
      [] t.k = "bool" /\ kind = "bool" -> [st |-> "ok", val |-> VBool(payload)]
      [] t.k = "u64" /\ kind = "u64" -> [st |-> "ok", val |-> VInt(payload)]
      [] t.k = "u64" /\ kind = "i64" ->
            IF payload >= 0 THEN [st |-> "ok", val |-> VInt(payload)]
            ELSE Err("invalid value: negative integer, expected u64")
      [] t.k = "i64" /\ kind \in {"u64", "i64"} -> [st |-> "ok", val |-> VInt(payload)]
      [] t.k = "string" /\ kind = "str" -> [st |-> "ok", val |-> VStr(payload)]
      [] t.k = "ident" /\ kind \in {"str", "bytes"} ->
            [st |-> "ok", val |-> VIdent(Position(t.names, payload))]
      [] OTHER -> Err("invalid type")

\* deserialize_string (free function of the deserializer)
deserialize_string(t, data) ==
    IF IsUtf8(data) THEN VisitScalar(t, "str", data)
    ELSE VisitScalar(t, "bytes", data)

\* TryFrom<RionField> for u64 / i64 and the narrow integers
FieldAsU64(f) ==
    IF f.kind = "Short" /\ Len(f.data) <= 8 /\ f.ty = "Int64Positive"
    THEN [st |-> "ok", v |-> BigEndian(f.data)]
    ELSE Err("Field is not a positive integer")

FieldAsI64(f) ==
    IF f.kind # "Short" \/ f.ty \notin {"Int64Positive", "Int64Negative"}
    THEN Err("Field is not an integer")
    ELSE IF Len(f.data) > 8 THEN Panic("unwrap on None")
    ELSE IF f.ty = "Int64Positive" THEN [st |-> "ok", v |-> BigEndian(f.data)]
    ELSE [st |-> "ok", v |-> -(BigEndian(f.data) + 1)]

FieldAsNarrow(t, f) ==
    IF t.k = "u8"
    THEN LET r == FieldAsU64(f) IN
         IF r.st # "ok" THEN r
         ELSE IF r.v > 255 THEN Err("too large for u8") ELSE r
    ELSE LET r == FieldAsI64(f) IN
         IF r.st # "ok" THEN r
         ELSE IF r.v < -128 \/ r.v > 127 THEN Err("too large for i8") ELSE r

----------------------------------------------------------------------------
(* serde/de/deserializer.rs *)

\* Deserializer::peek_lead: None when no byte is left or the lead is invalid
peek_lead(data) ==
    IF Len(data) = 0 THEN [some |-> FALSE]
    ELSE LET lead == LeadOf(data[1]) IN
         IF lead.st = "ok" THEN [some |-> TRUE, lead |-> lead] ELSE [some |-> FALSE]

\* Deserialize(t, data, de): T::deserialize on a deserializer over data, where
\* de is "rion" (Deserializer) or "bytes" (BytesDeserializer).  The result
\* carries the decoded value and the data the deserializer is left with.
\* st = "diverge": a Vec visitor pulls an element that consumes nothing, so
\* the same pull repeats for ever (the Vec grows until allocation fails).

\* deserialize_short
deserialize_short(t, short, length) ==
    CASE short \in {"Key", "UTF8"} -> deserialize_string(t, length)
      [] short = "Int64Positive" ->
            LET n == bytes_to_uint(length) IN
            IF n.st # "ok" THEN n ELSE VisitScalar(t, "u64", n.v)
      [] short = "Int64Negative" ->
            LET n == bytes_to_uint(length) IN
            IF n.st # "ok" THEN n ELSE VisitScalar(t, "i64", -n.v - 1)
      [] short = "Float" ->
            IF Len(length) = 4 THEN VisitScalar(t, "f32", length)
            ELSE IF Len(length) = 8 THEN VisitScalar(t, "f64", length)
            ELSE Err("DataLength")
      [] short = "UTCDateTime" -> Panic("todo!()")

\* deserialize_normal: the visitor gets a fresh deserializer over the window
deserialize_normal(t, normal, data) ==
    CASE normal = "Array" -> Call("VisitSeq", <<t, data, "rion">>)
      [] normal = "Object" -> Call("VisitMap", <<t, data>>)
      [] normal \in {"UTF8", "Key"} -> deserialize_string(t, data)
      [] normal = "Bytes" -> Call("VisitSeq", <<t, data, "bytes">>)
      [] normal = "Table" -> Panic("todo!()")

\* Deserializer::deserialize_field (deserialize_any)
deserialize_field(t, data) ==
    LET h == Call("get_header", <<data>>) IN
    IF h.st # "ok" THEN h
    ELSE IF LeadIsNull(h.lead)
        THEN LET r == VisitScalar(t, "none", <<>>) IN
             IF r.st = "ok" THEN Ok(r.val, h.rest) ELSE r
    ELSE CASE h.lead.fam = "Bool" ->
                IF h.lead.ty = "None" THEN Panic("unwrap on None")
                ELSE LET r == VisitScalar(t, "bool", h.lead.ty = "True") IN
                     IF r.st = "ok" THEN Ok(r.val, h.rest) ELSE r
           [] h.lead.fam = "Short" ->
                LET r == deserialize_short(t, h.lead.ty, h.length) IN
                IF r.st = "ok" THEN Ok(r.val, h.rest) ELSE r
           [] h.lead.fam = "Normal" ->
                LET n == bytes_to_uint(h.length) IN
                IF n.st # "ok" THEN n
                ELSE IF n.v > Len(h.rest) THEN Err("DataLength")
                ELSE LET r == deserialize_normal(t, h.lead.ty, Take(h.rest, n.v)) IN
                     IF r.st = "ok" THEN Ok(r.val, Drop(h.rest, n.v)) ELSE r
           [] OTHER -> Err("InvalidData")

\* Deserializer::parse_field for u8 / i8 (deserialize_u8, deserialize_i8)
parse_field(t, data) ==
    LET p == Call("RionFieldParse", <<data>>) IN
    IF p.st # "ok" THEN p
    ELSE LET r == FieldAsNarrow(t, p.field) IN
         IF r.st # "ok" THEN r ELSE Ok(VInt(r.v), p.rest)

\* Deserializer::deserialize_option: visit_none is called on the data as it
\* stands; nothing is taken from self.data before it
deserialize_option(t, data) ==
    IF Len(data) = 0 THEN Err("Eod")
    ELSE LET lead == LeadOf(data[1]) IN
         IF lead.st # "ok" THEN lead
         ELSE IF LeadIsNull(lead) THEN Ok(VNone, data)
         ELSE LET r == Call("Deserialize", <<t.of, data, "rion">>) IN
              IF r.st = "ok" THEN Ok(VSome(r.val), r.rest) ELSE r

\* Deserializer::deserialize_tuple_struct: the window of an Object is cut
\* out, and the first field in it has to be an Array, whose window goes to
\* the visitor; name and len are not looked at
deserialize_tuple_struct(t, data) ==
    LET h == Call("get_normal_header", <<data>>) IN
    IF h.st # "ok" THEN h
    ELSE IF ~(h.lead.fam = "Normal" /\ h.lead.ty = "Object") THEN Err("InvalidType")
    ELSE IF h.length > Len(h.rest) THEN Panic("slice index out of range")
    ELSE LET obj_data == Take(h.rest, h.length)
             a == Call("get_normal_header", <<obj_data>>)
         IN IF a.st # "ok" THEN a
            ELSE IF ~(a.lead.fam = "Normal" /\ a.lead.ty = "Array") THEN Err("InvalidType")
            ELSE IF a.length > Len(a.rest) THEN Panic("slice index out of range")
            ELSE LET r == Call("VisitSeq", <<t, Take(a.rest, a.length), "rion">>) IN
                 IF r.st = "ok" THEN Ok(r.val, Drop(h.rest, h.length)) ELSE r

Deserialize(t, data, de) ==
    IF de = "bytes"
    THEN \* impl serde::Deserializer for &mut BytesDeserializer
         CASE t.k = "u8" ->
                IF Len(data) = 0 THEN Err("Eod") ELSE Ok(VInt(data[1]), Drop(data, 1))
           [] t.k = "vec" -> Call("VisitSeq", <<t, data, "bytes">>)
           [] OTHER -> Panic("unreachable!: Only intended for bytes deserialization")
    ELSE \* impl serde::Deserializer for &mut Deserializer
         CASE t.k = "option" -> Call("deserialize_option", <<t, data>>)
           [] t.k \in {"u8", "i8"} -> Call("parse_field", <<t, data>>)
           [] t.k = "enum" -> Call("deserialize_enum", <<t, data>>)
           [] t.k = "tuple_struct" -> Call("deserialize_tuple_struct", <<t, data>>)
           [] OTHER -> Call("deserialize_field", <<t, data>>)

\* Vec<T>: while let Some(x) = seq.next_element()? { push }
VecElements(t, data, de, acc) ==
    IF Len(data) = 0 THEN Ok(VSeq(acc), data)
    ELSE LET r == Call("Deserialize", <<t, data, de>>) IN
         IF r.st # "ok" THEN r
         ELSE IF Len(r.rest) = Len(data) THEN [st |-> "diverge", e |-> "element consumes nothing"]
         ELSE Call("VecElements", <<t, r.rest, de, Append(acc, r.val)>>)

\* a tuple or a struct read positionally: one next_element per member,
\* None is invalid_length; what is left in the window is not looked at
TupleElements(tys, i, data, de, acc) ==
    IF i > Len(tys) THEN Ok(acc, data)
    ELSE IF Len(data) = 0 THEN Err("invalid length")
    ELSE LET r == Call("Deserialize", <<tys[i], data, de>>) IN
         IF r.st # "ok" THEN r
         ELSE Call("TupleElements", <<tys, i + 1, r.rest, de, Append(acc, r.val)>>)

\* visitor.visit_seq(access) for the visitor of t
VisitSeq(t, data, de) ==
    CASE t.k = "vec" -> Call("VecElements", <<t.of, data, de, <<>> >>)
      [] t.k = "ignored" ->
            LET r == Call("VecElements", <<TIgnored, data, de, <<>> >>) IN
            IF r.st = "ok" THEN Ok(VIgnored, r.rest) ELSE r
      [] t.k \in {"tuple", "tuple_struct"} ->
            LET r == Call("TupleElements", <<t.tys, 1, data, de, <<>> >>) IN
            IF r.st = "ok" THEN Ok(VSeq(r.val), r.rest) ELSE r
      [] t.k = "struct" ->
            LET r == Call("TupleElements", <<t.tys, 1, data, de, <<>> >>) IN
            IF r.st = "ok" THEN Ok(VStruct(r.val), r.rest) ELSE r
      [] OTHER -> Err("invalid type: sequence")

\* MapAccess::next_key_seed says the map has ended when no valid lead is
\* left or the next lead is not Key-typed
MapHasKey(data) ==
    LET p == peek_lead(data) IN p.some /\ IsKeyType(p.lead)

\* HashMap<K, T>: while let Some((k, v)) = map.next_entry()? { insert }
MapEntries(kt, t, data, acc) ==
    IF ~MapHasKey(data) THEN Ok(VMap(acc), data)
    ELSE LET k == Call("Deserialize", <<kt, data, "rion">>) IN
         IF k.st # "ok" THEN k
         ELSE LET v == Call("Deserialize", <<t, k.rest, "rion">>) IN
              IF v.st # "ok" THEN v
              ELSE Call("MapEntries", <<kt, t, v.rest, MapInsert(acc, k.val, v.val)>>)

\* IgnoredAny::visit_map
IgnoredEntries(data) ==
    IF ~MapHasKey(data) THEN Ok(VIgnored, data)
    ELSE LET k == Call("Deserialize", <<TIgnored, data, "rion">>) IN
         IF k.st # "ok" THEN k
         ELSE LET v == Call("Deserialize", <<TIgnored, k.rest, "rion">>) IN
              IF v.st # "ok" THEN v ELSE Call("IgnoredEntries", <<v.rest>>)

Unset == [k |-> "unset"]

\* a derived struct visitor's visit_map: fields by name, unknown names are
\* skipped as IgnoredAny, a name met twice is duplicate_field
StructEntries(t, data, slots) ==
    IF ~MapHasKey(data) THEN Ok(slots, data)
    ELSE LET k == Call("Deserialize", <<TIdent(t.names), data, "rion">>) IN
         IF k.st # "ok" THEN k
         ELSE IF k.val.i = 0
            THEN LET v == Call("Deserialize", <<TIgnored, k.rest, "rion">>) IN
                 IF v.st # "ok" THEN v ELSE Call("StructEntries", <<t, v.rest, slots>>)
         ELSE IF slots[k.val.i] # Unset THEN Err("duplicate field")
         ELSE LET v == Call("Deserialize", <<t.tys[k.val.i], k.rest, "rion">>) IN
              IF v.st # "ok" THEN v
              ELSE Call("StructEntries", <<t, v.rest, [slots EXCEPT ![k.val.i] = v.val]>>)

\* serde's missing_field: an Option member left out is None, any other an error
StructFinish(t, slots) ==
    IF \E i \in 1..Len(slots) : slots[i] = Unset /\ t.tys[i].k # "option"
    THEN Err("missing field")
    ELSE [st |-> "ok",
          val |-> VStruct([i \in 1..Len(slots) |->
                              IF slots[i] = Unset THEN VNone ELSE slots[i]])]

\* visitor.visit_map(access) for the visitor of t
VisitMap(t, data) ==
    CASE t.k = "map" -> Call("MapEntries", <<t.key, t.of, data, EmptyMap>>)
      [] t.k = "ignored" -> Call("IgnoredEntries", <<data>>)
      [] t.k = "struct" ->
            LET r == Call("StructEntries", <<t, data, [i \in 1..Len(t.tys) |-> Unset]>>) IN
            IF r.st # "ok" THEN r
            ELSE LET f == StructFinish(t, r.val) IN
                 IF f.st = "ok" THEN Ok(f.val, r.rest) ELSE f
      [] OTHER -> Err("invalid type: map")

\* visit_enum on a StrDeserializer: the name picks the variant, and only a
\* unit variant can be had from a bare name
EnumFromName(t, name) ==
    LET i == Position(t.names, name) IN
    IF i = 0 THEN Err("unknown variant")
    ELSE IF t.kinds[i] # "unit" THEN Err("invalid type: unit variant")
    ELSE [st |-> "ok", val |-> VEnum(i, VUnit)]

\* VariantAccess::tuple_variant / struct_variant: the payload has to be an
\* Array / Object, its window goes to the variant's visitor
VariantContainer(t, data, normal) ==
    LET h == Call("get_normal_header", <<data>>) IN
    IF h.st # "ok" THEN h
    ELSE IF ~(h.lead.fam = "Normal" /\ h.lead.ty = normal) THEN Err("InvalidType")
    ELSE IF h.length > Len(h.rest) THEN Panic("slice index out of range")
    ELSE LET r == IF normal = "Array"
                  THEN Call("VisitSeq", <<t, Take(h.rest, h.length), "rion">>)
                  ELSE Call("VisitMap", <<t, Take(h.rest, h.length)>>) IN
         IF r.st = "ok" THEN Ok(r.val, Drop(h.rest, h.length)) ELSE r

\* visit_enum on a Deserializer over an object's window: EnumAccess::variant_seed
\* reads the label, then the derived visitor asks the VariantAccess for the
\* payload of the variant's kind
VisitEnum(t, data) ==
    LET p == peek_lead(data) IN
    IF ~p.some THEN Err("Eod")
    ELSE IF ~IsLabelType(p.lead) THEN Err("InvalidType")
    ELSE LET key == Call("RionFieldParse", <<data>>) IN
         IF key.st # "ok" THEN key
         ELSE IF ~IsUtf8(key.field.data) THEN Panic("unwrap on None")
         ELSE LET i == Position(t.names, key.field.data) IN
              IF i = 0 THEN Err("unknown variant")
              ELSE LET r ==
                       CASE t.kinds[i] = "unit" ->
                              Panic("unreachable!: Should be handled by deserialize_enum")
                         [] t.kinds[i] = "newtype" ->
                              Call("Deserialize", <<t.tys[i], key.rest, "rion">>)
                         [] t.kinds[i] = "tuple" ->
                              Call("VariantContainer", <<t.tys[i], key.rest, "Array">>)
                         [] t.kinds[i] = "struct" ->
                              Call("VariantContainer", <<t.tys[i], key.rest, "Object">>)
                   IN IF r.st = "ok" THEN Ok(VEnum(i, r.val), r.rest) ELSE r

\* deserialize_enum
deserialize_enum(t, data) ==
    LET h == Call("get_header", <<data>>) IN
    IF h.st # "ok" THEN h
    ELSE IF IsLabelType(h.lead)
        THEN LET field == Call("RionFieldParse", <<data>>) IN
             IF field.st # "ok" THEN field
             ELSE IF ~IsUtf8(field.field.data) THEN Panic("unwrap on None")
             ELSE LET r == EnumFromName(t, field.field.data) IN
                  IF r.st = "ok" THEN Ok(r.val, field.rest) ELSE r
    ELSE IF h.lead.fam = "Normal" /\ h.lead.ty = "Object"
        THEN LET n == bytes_to_uint(h.length) IN
             IF n.st # "ok" THEN n
             ELSE IF n.v > Len(h.rest) THEN Panic("slice index out of range")
             ELSE LET r == Call("VisitEnum", <<t, Take(h.rest, n.v)>>) IN
                  IF r.st = "ok" THEN Ok(r.val, Drop(h.rest, n.v)) ELSE r
    ELSE Err("InvalidType")

\* from_bytes: T::deserialize on a Deserializer over the whole input; the
\* deserializer, with whatever it has not read, is dropped afterwards
from_bytes(t, data) ==
    LET r == Call("Deserialize", <<t, data, "rion">>) IN
    IF r.st = "ok" THEN [st |-> "ok", val |-> r.val, left |-> r.rest] ELSE r

----------------------------------------------------------------------------
(* serde/ser/serializer.rs *)

\* struct Serializer { output, stack }
NewSerializer == [st |-> "ok", output |-> <<>>, stack |-> <<>>]

Emit(s, bytes) == [s EXCEPT !.output = @ \o bytes]

\* Serializer::start_container: the stack holds 0-based sink offsets
start_container(s, type_byte) ==
    [s EXCEPT !.stack = Append(@, Len(s.output)),
              !.output = @ \o <<type_byte * 16, 0>>]

\* end_container without the splice that makes room for a length of more
\* than one byte: the length is written over the first payload bytes
end_container_in_place(s) ==
    IF Len(s.stack) = 0 THEN Panic("No object to end")
    ELSE LET start == s.stack[Len(s.stack)]
             popped == Take(s.stack, Len(s.stack) - 1)
             len == Len(s.output) - start - 2
             length_length == needed_bytes_usize(len)
             out == s.output
         IN IF length_length = 0
            THEN [s EXCEPT !.stack = popped,
                           !.output = Take(out, start + 1) \o Drop(out, start + 2)]
            ELSE [s EXCEPT !.stack = popped,
                           !.output = Take(out, start)
                                        \o <<out[start + 1] + length_length>>
                                        \o int_to_bytes(len)
                                        \o Drop(out, start + 1 + length_length)]

\* Serializer::end_container
end_container(s) ==
    IF Len(s.stack) = 0 THEN Panic("No object to end")
    ELSE LET start == s.stack[Len(s.stack)]
             popped == Take(s.stack, Len(s.stack) - 1)
             len == Len(s.output) - start - 2
             length_length == needed_bytes_usize(len)
             out == s.output
         IN IF length_length = 0
            THEN \* self.output.remove(start + 1)
                 [s EXCEPT !.stack = popped,
                           !.output = Take(out, start + 1) \o Drop(out, start + 2)]
            ELSE \* the lead's low nibble is 0, so |= adds; the placeholder is
                 \* widened to length_length bytes and holds len big-endian
                 [s EXCEPT !.stack = popped,
                           !.output = Take(out, start)
                                        \o <<out[start + 1] + length_length>>
                                        \o int_to_bytes(len)
                                        \o Drop(out, start + 2)]

\* the order in which a HashMap hands out its keys: the keys of m as they
\* stand in ord, a listing of every possible key
KeyOrder(m, ord) == SelectSeq(ord, LAMBDA key : key \in DOMAIN m)


\* serialize_key with the lead assigned the Key tag instead of masked: the
\* length nibble is lost, and a lead of any other type is let through
serialize_key_assigning(kt, key, s, ord) ==
    LET initial_len == Len(s.output)
        r == Call("Serialize", <<kt, key, s, ord>>)
    IN IF r.st # "ok" THEN r
       ELSE IF Len(r.output) <= initial_len THEN Panic("index out of bounds")
       ELSE LET lead == LeadOf(r.output[initial_len + 1]) IN
            IF lead.st # "ok" THEN lead
            ELSE IF lead.fam = "Normal" /\ lead.ty = "UTF8"
                THEN [r EXCEPT !.output[initial_len + 1] = KEY * 16]
            ELSE IF lead.fam = "Short" /\ lead.ty = "UTF8"
                THEN [r EXCEPT !.output[initial_len + 1] = KEY_SHORT * 16]
            ELSE r

\* SerializeMap::serialize_key: the key is serialized as any value, then the
\* type nibble of its lead is turned from UTF-8 into Key
serialize_key(kt, key, s, ord) ==
    LET initial_len == Len(s.output)
        r == Call("Serialize", <<kt, key, s, ord>>)
    IN IF r.st # "ok" THEN r
       ELSE IF Len(r.output) <= initial_len THEN Panic("index out of bounds")
       ELSE LET lead == LeadOf(r.output[initial_len + 1]) IN
            IF lead.st # "ok" THEN lead
            ELSE IF IsKeyType(lead) THEN r
            ELSE IF lead.fam = "Normal" /\ lead.ty = "UTF8"
                THEN [r EXCEPT !.output[initial_len + 1] = Lo(@) + KEY * 16]
            ELSE IF lead.fam = "Short" /\ lead.ty = "UTF8"
                THEN [r EXCEPT !.output[initial_len + 1] = Lo(@) + KEY_SHORT * 16]
            ELSE Err("InvalidType")

\* SerializeSeq::serialize_element / SerializeTuple::serialize_element
SerializeElements(tys, xs, i, s, ord) ==
    IF i > Len(xs) THEN s
    ELSE LET r == Call("Serialize", <<tys[i], xs[i], s, ord>>) IN
         IF r.st # "ok" THEN r ELSE Call("SerializeElements", <<tys, xs, i + 1, r, ord>>)

\* the default SerializeMap::serialize_entry, one per (key, value) of the map
SerializeEntries(t, m, keys, i, s, ord) ==
    IF i > Len(keys) THEN s
    ELSE LET k == Call("serialize_key", <<t.key, keys[i], s, ord>>) IN
         IF k.st # "ok" THEN k
         ELSE LET v == Call("Serialize", <<t.of, m[keys[i]], k, ord>>) IN
              IF v.st # "ok" THEN v ELSE Call("SerializeEntries", <<t, m, keys, i + 1, v, ord>>)

\* SerializeStruct::serialize_field
SerializeFields(t, xs, i, s, ord) ==
    IF i > Len(xs) THEN s
    ELSE LET k == Call("serialize_key", <<TString, VStr(t.names[i]), s, ord>>) IN
         IF k.st # "ok" THEN k
         ELSE LET v == Call("Serialize", <<t.tys[i], xs[i], k, ord>>) IN
              IF v.st # "ok" THEN v ELSE Call("SerializeFields", <<t, xs, i + 1, v, ord>>)

\* serialize_unit_variant, serialize_newtype_variant, serialize_tuple_variant
\* and serialize_struct_variant with their SerializeTupleVariant /
\* SerializeStructVariant.  A unit variant is its name as a string; a newtype
\* variant is Serializer::serialize_entry(name, value), the inherent method:
\* an Object holding the name as a Key and the value.
SerializeVariant(t, x, s, ord) ==
    LET i == x.variant
        keyed == Emit(start_container(s, OBJECT), RionFieldEncode(RionFieldKey(t.names[i])))
    IN CASE t.kinds[i] = "unit" -> Emit(s, RionFieldEncode(RionFieldFromStr(t.names[i])))
         [] t.kinds[i] = "newtype" ->
              LET r == Call("Serialize", <<t.tys[i], x.p, keyed, ord>>) IN
              IF r.st # "ok" THEN r ELSE end_container(r)
         [] t.kinds[i] = "tuple" ->
              LET r == Call("SerializeElements", <<t.tys[i].tys, x.p.xs, 1,
                                                   start_container(keyed, ARRAY), ord>>) IN
              IF r.st # "ok" THEN r ELSE end_container(end_container(r))
         [] t.kinds[i] = "struct" ->
              LET r == Call("SerializeFields", <<t.tys[i], x.p.fs, 1,
                                                 start_container(keyed, OBJECT), ord>>) IN
              IF r.st # "ok" THEN r ELSE end_container(end_container(r))

\* impl serde::Serializer for &mut Serializer, by the host type of the value
Serialize(t, x, s, ord) ==
    CASE t.k = "bool" -> Emit(s, RionFieldEncode(RionFieldFromBool(x.b)))
      [] t.k \in {"u64", "u8"} -> Emit(s, RionFieldEncode(RionFieldFromU64(x.n)))
      [] t.k \in {"i64", "i8"} -> Emit(s, RionFieldEncode(RionFieldFromI64(x.n)))
      [] t.k = "string" -> Emit(s, RionFieldEncode(RionFieldFromStr(x.s)))
      [] t.k = "unit" -> Emit(s, <<0>>)
      [] t.k = "option" ->
            IF x.k = "none" THEN Emit(s, <<0>>) ELSE Call("Serialize", <<t.of, x.some, s, ord>>)
      [] t.k = "vec" ->
            LET r == Call("SerializeElements", <<[i \in 1..Len(x.xs) |-> t.of], x.xs, 1,
                                       start_container(s, ARRAY), ord>>) IN
            IF r.st # "ok" THEN r ELSE end_container(r)
      [] t.k = "tuple" ->
            LET r == Call("SerializeElements", <<t.tys, x.xs, 1, start_container(s, ARRAY), ord>>) IN
            IF r.st # "ok" THEN r ELSE end_container(r)
      [] t.k = "map" ->
            LET r == Call("SerializeEntries", <<t, x.m, KeyOrder(x.m, ord), 1,
                                      start_container(s, OBJECT), ord>>) IN
            IF r.st # "ok" THEN r ELSE end_container(r)
      [] t.k = "struct" ->
            LET r == Call("SerializeFields", <<t, x.fs, 1, start_container(s, OBJECT), ord>>) IN
            IF r.st # "ok" THEN r ELSE end_container(r)
      [] t.k = "tuple_struct" ->
            \* serialize_tuple_struct: an Object, the name as a Key, an Array;
            \* SerializeTupleStruct::end closes both
            LET keyed == Emit(start_container(s, OBJECT), RionFieldEncode(RionFieldKey(t.name)))
                r == Call("SerializeElements", <<t.tys, x.xs, 1,
                                                 start_container(keyed, ARRAY), ord>>)
            IN IF r.st # "ok" THEN r ELSE end_container(end_container(r))
      [] t.k = "enum" -> Call("SerializeVariant", <<t, x, s, ord>>)

\* to_bytes
to_bytes(t, x, ord) ==
    LET r == Call("Serialize", <<t, x, NewSerializer, ord>>) IN
    IF r.st = "ok" THEN [st |-> "ok", bytes |-> r.output] ELSE r

----------------------------------------------------------------------------
(* object.rs *)

num_needed_length(n) == needed_bytes_usize(n)

\* usize::to_be_bytes: eight bytes, most significant first
RECURSIVE ToBeBytes(_, _)
ToBeBytes(n, width) ==
    IF width = 0 THEN <<>> ELSE ToBeBytes(n \div 256, width - 1) \o <<n % 256>>

\* RionObject::new
RionObjectNew == [fields |-> EmptyMap, byte_len |-> 0]

\* RionObject::add_field_bytes
add_field_bytes(o, key, field) ==
    [fields |-> MapInsert(o.fields, key, field),
     byte_len |-> o.byte_len + RionFieldNeededBytes(field) + 1
                    + (IF Len(key) > 15 THEN num_needed_length(Len(key)) ELSE 0)]

\* RionObject::write_header
write_header(o) ==
    LET length_length == num_needed_length(o.byte_len) IN
    IF length_length > 15 THEN Err("Object length field is too long")
    ELSE [st |-> "ok",
          bytes |-> <<OBJECT * 16 + (length_length % 16)>>
                      \o Drop(ToBeBytes(o.byte_len, 8), 8 - length_length)]

\* RionObject::write_body: the sorted listing is built and not used, the
\* loop walks the HashMap itself, in the order the map hands its entries out
RECURSIVE WriteEntries(_, _, _)
WriteEntries(fields, keys, i) ==
    IF i > Len(keys) THEN <<>>
    ELSE RionFieldEncode(RionFieldKey(keys[i])) \o RionFieldEncode(fields[keys[i]])
            \o WriteEntries(fields, keys, i + 1)

write_body(o, ord) == WriteEntries(o.fields, KeyOrder(o.fields, ord), 1)

\* RionObject::write / RionObject::encode
RionObjectEncode(o, ord) ==
    LET h == write_header(o) IN
    IF h.st # "ok" THEN Panic("unwrap on Err")
    ELSE [st |-> "ok", bytes |-> h.bytes \o write_body(o, ord)]

\* impl From<RionObject> for RionField
RionFieldFromObject(o, ord) ==
    NormalField("Object", WriteEntries(o.fields, KeyOrder(o.fields, ord), 1))

\* RionObject::parse_rest
parse_rest(data, fields, byte_len) ==
    IF Len(data) = 0 THEN [st |-> "ok", obj |-> [fields |-> fields, byte_len |-> byte_len]]
    ELSE LET k == Call("RionFieldParse", <<data>>) IN
         IF k.st # "ok" THEN k
         ELSE IF ~RionFieldIsKey(k.field) THEN Err("Expected a key")
         ELSE LET v == Call("RionFieldParse", <<k.rest>>) IN
              IF v.st # "ok" THEN v
              ELSE Call("parse_rest", <<v.rest, MapInsert(fields, k.field.data, v.field), byte_len>>)

\* RionObject::parse
RionObjectParse(data) ==
    LET h == Call("get_normal_header", <<data>>) IN
    IF h.st # "ok" THEN h
    ELSE IF ~(h.lead.fam = "Normal" /\ h.lead.ty = "Object") THEN Err("Expected a RION object")
    ELSE IF h.length > Len(h.rest) THEN Panic("RionObject::parse: slice index out of range")
    ELSE LET r == Call("parse_rest", <<Take(h.rest, h.length), EmptyMap, h.length>>) IN
         IF r.st # "ok" THEN r
         ELSE [st |-> "ok", obj |-> r.obj, rest |-> Drop(h.rest, h.length)]

\* RionObject::from_slice
RionObjectFromSlice(data) ==
    LET r == Call("RionObjectParse", <<data>>) IN
    IF r.st # "ok" THEN r
    ELSE IF Len(r.rest) # 0 THEN Err("Extra data after object")
    ELSE [st |-> "ok", obj |-> r.obj]

----------------------------------------------------------------------------
(* array.rs *)

\* u8 | u8
RECURSIVE BitOr(_, _)
BitOr(a, b) ==
    IF a = 0 THEN b
    ELSE IF b = 0 THEN a
    ELSE 2 * BitOr(a \div 2, b \div 2) + (IF a % 2 = 1 \/ b % 2 = 1 THEN 1 ELSE 0)

\* LeadByte::byte of LeadByte::from_type(field_type, length): the type code
\* and the length are or-ed as they are, the type code is not shifted
LeadByteByte(code, length) == BitOr(code, length)

\* RionArray::new
RionArrayNew == [elements |-> <<>>, byte_len |-> 0]

\* RionArray::add_element
add_element(a, element) ==
    [elements |-> Append(a.elements, element),
     byte_len |-> a.byte_len + RionFieldNeededBytes(element)]

\* RionArray::write_header
RionArrayWriteHeader(a) ==
    LET length_length == num_needed_length(a.byte_len) IN
    <<LeadByteByte(NormalToByte("Array"), length_length % 256)>>
        \o Drop(ToBeBytes(a.byte_len, 8), 8 - length_length)

\* RionArray::write_body
RECURSIVE RionArrayWriteBody(_, _)
RionArrayWriteBody(elements, i) ==
    IF i > Len(elements) THEN <<>>
    ELSE RionFieldEncode(elements[i]) \o RionArrayWriteBody(elements, i + 1)

\* RionArray::write / RionArray::encode
RionArrayEncode(a) ==
    [st |-> "ok", bytes |-> RionArrayWriteHeader(a) \o RionArrayWriteBody(a.elements, 1)]

\* RionArray::parse_rest
RionArrayParseRest(data, elements, byte_len) ==
    IF Len(data) = 0
    THEN [st |-> "ok", arr |-> [elements |-> elements, byte_len |-> byte_len]]
    ELSE LET e == Call("RionFieldParse", <<data>>) IN
         IF e.st # "ok" THEN e
         ELSE Call("RionArrayParseRest", <<e.rest, Append(elements, e.field), byte_len>>)

\* RionArray::parse
RionArrayParse(data) ==
    LET h == Call("get_normal_header", <<data>>) IN
    IF h.st # "ok" THEN h
    ELSE IF ~(h.lead.fam = "Normal" /\ h.lead.ty = "Array") THEN Err("Expected a RION array")
    ELSE IF h.length > Len(h.rest) THEN Panic("RionArray::parse: slice index out of range")
    ELSE LET r == Call("RionArrayParseRest", <<Take(h.rest, h.length), <<>>, h.length>>) IN
         IF r.st # "ok" THEN r
         ELSE [st |-> "ok", arr |-> r.arr, rest |-> Drop(h.rest, h.length)]

\* RionArray::from_slice
RionArrayFromSlice(data) ==
    LET r == Call("RionArrayParse", <<data>>) IN
    IF r.st # "ok" THEN r
    ELSE IF Len(r.rest) # 0 THEN Err("Extra data after array")
    ELSE [st |-> "ok", arr |-> r.arr]

----------------------------------------------------------------------------
(* table.rs *)

\* ShortField::as_pos_int
as_pos_int(short) ==
    IF Len(short.data) > 8 \/ short.ty # "Int64Positive" THEN [st |-> "none"]
    ELSE [st |-> "some", v |-> BigEndian(short.data)]

\* RionTable::parse, the loop over the column names: it reads keys from rest
\* until a field fails to parse or is not a key
TableColumns(rest, column_names, m) ==
    LET f == Call("RionFieldParse", <<rest>>) IN
    IF f.st = "panic" THEN f
    ELSE IF f.st # "ok"
        THEN IF m # 0 THEN Err("Not enough column names")
             ELSE [st |-> "done", column_names |-> column_names, rest |-> rest]
    ELSE IF ~RionFieldIsKey(f.field)
        THEN [st |-> "ok", column_names |-> column_names, first_object |-> f.field,
              rest |-> f.rest]
    ELSE Call("TableColumns", <<f.rest, Append(column_names, f.field.data), m>>)

\* RionTable::parse, the loop over the remaining row fields
TableRows(rest, rows, n) ==
    IF n <= 0 THEN [st |-> "ok", rows |-> rows, rest |-> rest]
    ELSE LET f == Call("RionFieldParse", <<rest>>) IN
         IF f.st # "ok" THEN f
         ELSE Call("TableRows", <<f.rest, Append(rows, f.field), n - 1>>)

\* RionTable::parse, from the row count on
TableBody(h, f) ==
    IF f.st # "ok" THEN f
    ELSE IF f.field.kind # "Short" THEN Err("Expected a short field")
    ELSE LET m == as_pos_int(f.field) IN
         IF m.st = "none" THEN Err("Expected a positive integer")
         ELSE LET c == Call("TableColumns", <<f.rest, <<>>, m.v>>) IN
              CASE c.st = "done" ->
                     [st |-> "ok", rest |-> c.rest,
                      table |-> [column_names |-> c.column_names, rows |-> <<>>]]
                [] c.st # "ok" -> c
                [] Len(c.column_names) = 0 \/ m.v = 0 ->
                     [st |-> "ok", rest |-> c.rest,
                      table |-> [column_names |-> c.column_names, rows |-> <<>>]]
                [] m.v * Len(c.column_names) > h.length -> Err("Not enough data for rows")
                [] OTHER ->
                     LET r == Call("TableRows", <<c.rest, <<c.first_object>>,
                                                  m.v * Len(c.column_names) - 1>>) IN
                     IF r.st # "ok" THEN r
                     ELSE [st |-> "ok", rest |-> r.rest,
                           table |-> [column_names |-> c.column_names, rows |-> r.rows]]

\* RionTable::parse
RionTableParse(data) ==
    IF Len(data) = 0 THEN Err("Data is empty")
    ELSE LET h == Call("get_normal_header", <<data>>) IN
         IF h.st # "ok" THEN h
         ELSE IF ~(h.lead.fam = "Normal" /\ h.lead.ty = "Table")
             THEN Err("Expected a RION table")
         ELSE Call("TableBody", <<h, Call("RionFieldParse", <<h.rest>>)>>)

----------------------------------------------------------------------------
(* field.rs and serde/de/deserializer.rs: integer fields at 64 bits *)

\* the two builds: overflow checks on (a panic) and off (wrapping)
Profiles == {"debug", "release"}

Int64Min == <<128, 0, 0, 0, 0, 0, 0, 0>>
Int64Max == <<127, 255, 255, 255, 255, 255, 255, 255>>

\* bytes[8 - data.len()..].copy_from_slice(&data)
PadWord(data) == [i \in 1..(8 - Len(data)) |-> 0] \o data

\* value - 1 in two's complement
RECURSIVE WordDec(_)
WordDec(w) ==
    IF Len(w) = 0 THEN <<>>
    ELSE IF w[Len(w)] > 0 THEN Take(w, Len(w) - 1) \o <<w[Len(w)] - 1>>
    ELSE WordDec(Take(w, Len(w) - 1)) \o <<255>>

\* ShortField::as_neg_int: -(i64::from_be_bytes(bytes) + 1)
as_neg_int(ty, data, profile) ==
    IF Len(data) > 8 \/ ty # "Int64Negative" THEN [st |-> "none"]
    ELSE LET x == PadWord(data) IN
         IF profile = "debug" /\ x = Int64Max
         THEN Panic("attempt to add with overflow")
         ELSE IF profile = "debug" /\ WordInc(x) = Int64Min
         THEN Panic("attempt to negate with overflow")
         ELSE [st |-> "ok", v |-> WordNeg(WordInc(x))]

\* impl TryFrom<RionField> for i64, on a short field of type Int64Negative
FieldAsI64Negative(data, profile) ==
    LET r == as_neg_int("Int64Negative", data, profile) IN
    IF r.st = "none" THEN Panic("unwrap on None") ELSE r

\* ShortField::as_pos_int at the width of a u64
as_pos_int_word(ty, data) ==
    IF Len(data) > 8 \/ ty # "Int64Positive" THEN [st |-> "none"]
    ELSE [st |-> "ok", v |-> PadWord(data)]

\* impl TryFrom<RionField> for u64, on a short field
U64TryFrom(ty, data) ==
    LET r == as_pos_int_word(ty, data) IN
    IF r.st = "none" THEN Err("Field is not a positive integer") ELSE r

\* impl TryFrom<RionField> for i64, on a short field; u64 -> i64 by try_into
I64TryFrom(ty, data, profile) ==
    CASE ty = "Int64Positive" ->
            LET r == as_pos_int_word(ty, data) IN
            IF r.st = "none" THEN Panic("unwrap on None")
            ELSE IF r.v[1] >= 128 THEN Err("out of range integral type conversion attempted")
            ELSE r
      [] ty = "Int64Negative" -> FieldAsI64Negative(data, profile)
      [] OTHER -> Err("Field is not an integer")

\* !(value > uN::MAX as u64), N = 8 * width
FitsUnsigned(w, width) == \A i \in 1..(8 - width) : w[i] = 0

\* !(value < iN::MIN as i64 || value > iN::MAX as i64): the bytes above the
\* low width bytes repeat the sign of those
FitsSigned(w, width) ==
    \A i \in 1..(8 - width) : w[i] = (IF w[8 - width + 1] >= 128 THEN 255 ELSE 0)

\* impl TryFrom<RionField> for u32 / u16 / u8 / i32 / i16 / i8; the value is
\* kept as a 64-bit word, which `value as T` does not change once it fits
NarrowTryFrom(t, ty, data, profile) ==
    IF t.signed
    THEN LET r == I64TryFrom(ty, data, profile) IN
         IF r.st # "ok" THEN r
         ELSE IF ~FitsSigned(r.v, t.width) THEN Err("Value is too large") ELSE r
    ELSE LET r == U64TryFrom(ty, data) IN
         IF r.st # "ok" THEN r
         ELSE IF ~FitsUnsigned(r.v, t.width) THEN Err("Value is too large") ELSE r

\* bytes_to_uint at the width of a u64
bytes_to_uint_word(bs) ==
    IF Len(bs) > 8 THEN Err("Data too large") ELSE [st |-> "ok", v |-> PadWord(bs)]

\* deserialize_short, Int64Negative, into an i64: -(val as i64) - 1
deserialize_short_negative(length, profile) ==
    LET val == bytes_to_uint_word(length) IN
    IF val.st # "ok" THEN val
    ELSE IF profile = "debug" /\ val.v = Int64Min
    THEN Panic("attempt to negate with overflow")
    ELSE IF profile = "debug" /\ WordNeg(val.v) = Int64Min
    THEN Panic("attempt to subtract with overflow")
    ELSE [st |-> "ok", v |-> WordDec(WordNeg(val.v))]

----------------------------------------------------------------------------
(* Calls *)

Call(fn, args) ==
    CASE fn = "get_header" -> get_header(args[1])
      [] fn = "RionFieldParse" -> RionFieldParse(args[1])
      [] fn = "Deserialize" -> Deserialize(args[1], args[2], args[3])
      [] fn = "deserialize_field" -> deserialize_field(args[1], args[2])
      [] fn = "deserialize_option" -> deserialize_option(args[1], args[2])
      [] fn = "deserialize_tuple_struct" -> deserialize_tuple_struct(args[1], args[2])
      [] fn = "parse_field" -> parse_field(args[1], args[2])
      [] fn = "VecElements" -> VecElements(args[1], args[2], args[3], args[4])
      [] fn = "TupleElements" -> TupleElements(args[1], args[2], args[3], args[4], args[5])
      [] fn = "VisitSeq" -> VisitSeq(args[1], args[2], args[3])
      [] fn = "VisitMap" -> VisitMap(args[1], args[2])
      [] fn = "MapEntries" -> MapEntries(args[1], args[2], args[3], args[4])
      [] fn = "IgnoredEntries" -> IgnoredEntries(args[1])
      [] fn = "StructEntries" -> StructEntries(args[1], args[2], args[3])
      [] fn = "Serialize" -> Serialize(args[1], args[2], args[3], args[4])
      [] fn = "SerializeElements" -> SerializeElements(args[1], args[2], args[3], args[4], args[5])
      [] fn = "SerializeEntries" -> SerializeEntries(args[1], args[2], args[3], args[4], args[5], args[6])
      [] fn = "SerializeFields" -> SerializeFields(args[1], args[2], args[3], args[4], args[5])
      [] fn = "serialize_key" -> serialize_key(args[1], args[2], args[3], args[4])
      [] fn = "parse_rest" -> parse_rest(args[1], args[2], args[3])
      [] fn = "get_normal_header" -> get_normal_header(args[1])
      [] fn = "RionObjectParse" -> RionObjectParse(args[1])
      [] fn = "RionObjectFromSlice" -> RionObjectFromSlice(args[1])
      [] fn = "from_bytes" -> from_bytes(args[1], args[2])
      [] fn = "to_bytes" -> to_bytes(args[1], args[2], args[3])
      [] fn = "RionArrayParseRest" -> RionArrayParseRest(args[1], args[2], args[3])
      [] fn = "RionArrayParse" -> RionArrayParse(args[1])
      [] fn = "RionArrayFromSlice" -> RionArrayFromSlice(args[1])
      [] fn = "TableColumns" -> TableColumns(args[1], args[2], args[3])
      [] fn = "TableRows" -> TableRows(args[1], args[2], args[3])
      [] fn = "TableBody" -> TableBody(args[1], args[2])
      [] fn = "RionTableParse" -> RionTableParse(args[1])
      [] fn = "deserialize_enum" -> deserialize_enum(args[1], args[2])
      [] fn = "VisitEnum" -> VisitEnum(args[1], args[2])
      [] fn = "VariantContainer" -> VariantContainer(args[1], args[2], args[3])
      [] fn = "SerializeVariant" -> SerializeVariant(args[1], args[2], args[3], args[4])

----------------------------------------------------------------------------
(* Inputs *)

\* a variable the running specification does not use
Nil == [st |-> "none"]

\* bytes the bounded inputs are built from: a lead of every family with a
\* low nibble that a short input can satisfy, and small length / payload bytes
\*   0x00 0x01 0x02 0x10 0x12 0x21 0x31 0x50 0x61 0xA1 0xC1 0xE1
Alphabet == {0, 1, 2, 16, 18, 33, 49, 80, 97, 161, 193, 225}

\* the inputs the format's description works through, and one per field type
\* the short alphabet cannot frame
Scenarios ==
    { <<193, 5, 33, 10>>,
      <<193, 10, 227, 75, 101, 121, 101, 86, 97, 108, 117, 101>>,
      <<161, 4, 33, 10, 97, 65>>,
      <<1, 5, 1, 2, 3, 4, 5>>,
      <<33, 10, 255>>,
      <<177, 0>>,
      <<113, 1>>,
      <<68, 0, 0, 0, 0>>,
      <<193, 4, 225, 97, 0, 33>>,
      <<193, 8, 225, 97, 0, 225, 98, 33, 7>> }

RawInputs ==
    (UNION {[1..n -> Alphabet] : n \in 0..MaxInputLen})
        \cup {<<b>> : b \in 0..255} \cup Scenarios

\* names used by the host's structs and maps: "a", "b"
NameA == <<97>>
NameB == <<98>>

\* struct Leaf { a: u64 }, struct Node { a: Option<u64>, b: String },
\* struct Tail { a: String, b: Option<u64> }
TLeaf == TStruct(<<NameA>>, <<TU64>>)
TNode == TStruct(<<NameA, NameB>>, <<TOption(TU64), TString>>)
TTail == TStruct(<<NameA, NameB>>, <<TString, TOption(TU64)>>)

\* the host types from_bytes is asked for
DecodeTypes ==
    { TBool, TU64, TI64, TU8, TI8, TString, TUnit,
      TOption(TU64), TOption(TBool), TOption(TString),
      TVec(TU8), TVec(TU64), TVec(TOption(TU64)),
      TMap(TString, TU64), TLeaf, TNode, TTuple(<<TU8, TString>>) }

\* strings of the lengths 1, 5, 15 and 16
StrOfLen(n) == [i \in 1..n |-> 97 + (i % 26)]

\* the orders in which a HashMap of the sampled values can be walked: its
\* keys are among "a", "b" and 1, and only "a" and "b" meet in one map
Orders ==
    { <<VStr(NameA), VStr(NameB), VInt(1)>>, <<VStr(NameB), VStr(NameA), VInt(1)>> }

Sample(t, v) == [ty |-> t, val |-> v]

\* typed host values handed to to_bytes
Samples ==
    {Sample(TBool, VBool(b)) : b \in BOOLEAN}
    \cup {Sample(TU64, VInt(n)) : n \in {0, 1, 10, 255, 256, 65535, 65536}}
    \cup {Sample(TI64, VInt(n)) : n \in {-65537, -257, -256, -129, -128, -42, -1, 0, 127, 128}}
    \cup {Sample(TU8, VInt(n)) : n \in {0, 7, 255}}
    \cup {Sample(TI8, VInt(n)) : n \in {-128, -1, 0, 127}}
    \cup {Sample(TString, VStr(StrOfLen(n))) : n \in {0, 1, 5, 15, 16}}
    \cup {Sample(TUnit, VUnit)}
    \cup {Sample(TOption(TU64), x) : x \in {VNone, VSome(VInt(0)), VSome(VInt(10))}}
    \cup {Sample(TOption(TBool), x) : x \in {VNone, VSome(VBool(TRUE)), VSome(VBool(FALSE))}}
    \cup {Sample(TOption(TString), x) : x \in {VNone, VSome(VStr(<<>>)), VSome(VStr(NameA))}}
    \cup {Sample(TVec(TU64), VSeq(xs)) : xs \in {<<>>, <<VInt(1)>>, <<VInt(1), VInt(2)>>}}
    \cup {Sample(TVec(TString), VSeq(xs)) : xs \in {<<VStr(NameA)>>, <<VStr(NameA), VStr(<<>>)>>}}
    \cup {Sample(TVec(TOption(TU64)), VSeq(xs)) :
            xs \in {<<VNone>>, <<VSome(VInt(1))>>, <<VSome(VInt(1)), VNone>>,
                    <<VNone, VSome(VInt(1))>>}}
    \cup {Sample(TVec(TVec(TU64)), VSeq(xs)) : xs \in {<<VSeq(<<VInt(1)>>)>>, <<VSeq(<<>>)>>}}
    \cup {Sample(TOption(TVec(TU64)), x) : x \in {VNone, VSome(VSeq(<<>>)), VSome(VSeq(<<VInt(3)>>))}}
    \cup {Sample(TMap(TString, TU64), VMap(m)) :
            m \in {EmptyMap, MapInsert(EmptyMap, VStr(NameA), VInt(1)),
                   MapInsert(MapInsert(EmptyMap, VStr(NameA), VInt(1)), VStr(NameB), VInt(2))}}
    \cup {Sample(TMap(TU64, TU64), VMap(MapInsert(EmptyMap, VInt(1), VInt(2))))}
    \cup {Sample(TOption(TMap(TString, TU64)), x) :
            x \in {VSome(VMap(EmptyMap)), VSome(VMap(MapInsert(EmptyMap, VStr(NameA), VInt(1))))}}
    \cup {Sample(TLeaf, VStruct(<<VInt(n)>>)) : n \in {0, 30}}
    \cup {Sample(TNode, VStruct(xs)) :
            xs \in {<<VNone, VStr(StrOfLen(4))>>, <<VSome(VInt(1)), VStr(StrOfLen(4))>>,
                    <<VSome(VInt(1)), VStr(<<>>)>>}}
    \cup {Sample(TTail, VStruct(xs)) :
            xs \in {<<VStr(NameA), VNone>>, <<VStr(NameA), VSome(VInt(2))>>}}
    \cup {Sample(TTuple(<<TU8, TString>>), VSeq(<<VInt(10), VStr(<<65>>)>>))}
    \cup {Sample(TTupleStruct(name, <<TU64, TString>>), VSeq(<<VInt(n), VStr(NameA)>>)) :
            name \in {NameB, StrOfLen(3), StrOfLen(16)}, n \in {0, 42}}
    \cup {Sample(TTuple(<<TOption(TU64), TU64>>), VSeq(xs)) :
            xs \in {<<VNone, VInt(5)>>, <<VSome(VInt(4)), VInt(5)>>}}
    \cup {Sample(TEnum(<<NameA, StrOfLen(15), StrOfLen(16), NameB>>,
                        <<"unit", "unit", "unit", "newtype">>,
                        <<TUnit, TUnit, TUnit, TU64>>), x) :
            x \in {VEnum(1, VUnit), VEnum(2, VUnit), VEnum(3, VUnit), VEnum(4, VInt(42))}}
    \cup {Sample(TEnum(<<NameA, NameB>>, <<"tuple", "struct">>,
                        <<TTuple(<<TU64, TString>>), TLeaf>>), x) :
            x \in {VEnum(1, VSeq(<<VInt(42), VStr(NameA)>>)), VEnum(2, VStruct(<<VInt(1)>>))}}

----------------------------------------------------------------------------
(* Decoding arbitrary bytes *)

InitDecode ==
    /\ input \in RawInputs
    /\ hostTy = Nil /\ value = Nil /\ output = Nil /\ output2 = Nil
    /\ res = Nil /\ obj = Nil /\ adds = 0
    /\ op = "init"

\* LeadByte::try_from on the first byte of the input
LeadDecode ==
    /\ op = "init" /\ Len(input) > 0
    /\ res' = LeadOf(input[1])
    /\ op' = "LeadByte::try_from"
    /\ UNCHANGED <<input, hostTy, value, output, output2, obj, adds>>

\* RionField::parse on the input
ParseField ==
    /\ op = "init"
    /\ res' = Call("RionFieldParse", <<input>>)
    /\ op' = "RionField::parse"
    /\ UNCHANGED <<input, hostTy, value, output, output2, obj, adds>>

\* NormalField::parse as a caller holding a normal lead makes it: the bytes
\* after the lead, the lead's low nibble, the lead's type
ParseNormal ==
    /\ op = "init" /\ Len(input) > 0
    /\ LET lead == LeadOf(input[1]) IN
         /\ lead.st = "ok" /\ lead.fam = "Normal"
         /\ res' = NormalFieldParse(Drop(input, 1), LeadLength(lead), lead.ty)
    /\ op' = "NormalField::parse"
    /\ UNCHANGED <<input, hostTy, value, output, output2, obj, adds>>

\* from_bytes::<T> on the input
FromBytes(t) ==
    /\ op = "init"
    /\ hostTy' = t
    /\ res' = Call("from_bytes", <<t, input>>)
    /\ op' = "from_bytes"
    /\ UNCHANGED <<input, value, output, output2, obj, adds>>

\* Option<T>::deserialize on a Deserializer over the input, the deserializer
\* kept: res.rest is what it still holds
DecodeOption(t) ==
    /\ op = "init"
    /\ t.k = "option"
    /\ hostTy' = t
    /\ res' = Call("deserialize_option", <<t, input>>)
    /\ op' = "deserialize_option"
    /\ UNCHANGED <<input, value, output, output2, obj, adds>>

NextDecode ==
    \/ LeadDecode
    \/ ParseField
    \/ ParseNormal
    \/ \E t \in DecodeTypes : FromBytes(t)
    \/ \E t \in DecodeTypes : DecodeOption(t)

SpecDecode == InitDecode /\ [][NextDecode]_vars

----------------------------------------------------------------------------
(* Encoding a host value, decoding the bytes, encoding the result again *)

InitRoundTrip ==
    /\ \E smp \in Samples : hostTy = smp.ty /\ value = smp.val
    /\ input = <<>> /\ output = Nil /\ output2 = Nil
    /\ res = Nil /\ obj = Nil /\ adds = 0
    /\ op = "init"

\* to_bytes(&value); ord is the order the value's HashMaps are walked in
ToBytes ==
    /\ op = "init"
    /\ \E ord \in Orders : output' = Call("to_bytes", <<hostTy, value, ord>>)
    /\ op' = "to_bytes"
    /\ UNCHANGED <<input, hostTy, value, output2, res, obj, adds>>

\* from_bytes::<T>(&bytes) on what to_bytes returned
FromBytesBack ==
    /\ op = "to_bytes" /\ output.st = "ok"
    /\ input' = output.bytes
    /\ res' = Call("from_bytes", <<hostTy, output.bytes>>)
    /\ op' = "from_bytes"
    /\ UNCHANGED <<hostTy, value, output, output2, obj, adds>>

\* to_bytes(&decoded); the decoded value's HashMaps are new ones, walked in
\* an order of their own
ReEncode ==
    /\ op = "from_bytes" /\ res.st = "ok"
    /\ \E ord \in Orders : output2' = Call("to_bytes", <<hostTy, res.val, ord>>)
    /\ op' = "re_encode"
    /\ UNCHANGED <<input, hostTy, value, output, res, obj, adds>>

NextRoundTrip == ToBytes \/ FromBytesBack \/ ReEncode

SpecRoundTrip == InitRoundTrip /\ [][NextRoundTrip]_vars

----------------------------------------------------------------------------
(* The typed RionObject builder *)

\* keys handed to add_field_bytes: "Key", "a", and one of 16 bytes
ObjectKeys == { <<75, 101, 121>>, NameA, StrOfLen(16) }

\* values handed to add_field: "Value", "", 30, -1, true, and an object
ObjectValues ==
    { RionFieldFromStr(<<86, 97, 108, 117, 101>>), RionFieldFromStr(<<>>),
      RionFieldFromI64(30), RionFieldFromI64(-1), RionFieldFromBool(TRUE),
      RionFieldFromObject(add_field_bytes(RionObjectNew, NameA, RionFieldFromI64(1)),
                          <<NameA>>) }

\* the orders in which a HashMap over ObjectKeys can be walked
ObjectOrders ==
    { ord \in [1..3 -> ObjectKeys] : \A key \in ObjectKeys : \E i \in 1..3 : ord[i] = key }

InitObject ==
    /\ obj = RionObjectNew /\ adds = 0
    /\ input = <<>> /\ hostTy = Nil /\ value = Nil
    /\ output = Nil /\ output2 = Nil /\ res = Nil
    /\ op = "init"

\* RionObject::add_field / add_field_bytes
AddField(key, field) ==
    /\ op \in {"init", "add_field"} /\ adds < MaxAdds
    /\ obj' = add_field_bytes(obj, key, field)
    /\ adds' = adds + 1
    /\ op' = "add_field"
    /\ UNCHANGED <<input, hostTy, value, output, output2, res>>

\* RionObject::encode
EncodeObject ==
    /\ op \in {"init", "add_field"}
    /\ \E ord \in ObjectOrders : output' = RionObjectEncode(obj, ord)
    /\ op' = "encode"
    /\ UNCHANGED <<input, hostTy, value, output2, res, obj, adds>>

\* RionObject::from_slice on the encoded object
DecodeObject ==
    /\ op = "encode" /\ output.st = "ok"
    /\ input' = output.bytes
    /\ res' = Call("RionObjectFromSlice", <<output.bytes>>)
    /\ op' = "from_slice"
    /\ UNCHANGED <<hostTy, value, output, output2, obj, adds>>

\* RionObject::encode on the decoded object
ReEncodeObject ==
    /\ op = "from_slice" /\ res.st = "ok"
    /\ \E ord \in ObjectOrders : output2' = RionObjectEncode(res.obj, ord)
    /\ op' = "re_encode"
    /\ UNCHANGED <<input, hostTy, value, output, res, obj, adds>>

NextObject ==
    \/ \E key \in ObjectKeys, field \in ObjectValues : AddField(key, field)
    \/ EncodeObject
    \/ DecodeObject
    \/ ReEncodeObject

SpecObject == InitObject /\ [][NextObject]_vars

----------------------------------------------------------------------------
(* The typed RionArray builder *)

MaxElems == 3

\* elements handed to add_element: "value1", "", 30, -1, true
ArrayValues ==
    { RionFieldFromStr(<<118, 97, 108, 117, 101, 49>>), RionFieldFromStr(<<>>),
      RionFieldFromI64(30), RionFieldFromI64(-1), RionFieldFromBool(TRUE) }

InitArray ==
    /\ obj = RionArrayNew /\ adds = 0
    /\ input = <<>> /\ hostTy = Nil /\ value = Nil
    /\ output = Nil /\ output2 = Nil /\ res = Nil
    /\ op = "init"

\* RionArray::add_element
AddElement(element) ==
    /\ op \in {"init", "add_element"} /\ adds < MaxElems
    /\ obj' = add_element(obj, element)
    /\ adds' = adds + 1
    /\ op' = "add_element"
    /\ UNCHANGED <<input, hostTy, value, output, output2, res>>

\* RionArray::encode
EncodeArray ==
    /\ op \in {"init", "add_element"}
    /\ output' = RionArrayEncode(obj)
    /\ op' = "RionArray::encode"
    /\ UNCHANGED <<input, hostTy, value, output2, res, obj, adds>>

\* RionArray::from_slice on the encoded array
DecodeArray ==
    /\ op = "RionArray::encode"
    /\ input' = output.bytes
    /\ res' = Call("RionArrayFromSlice", <<output.bytes>>)
    /\ op' = "RionArray::from_slice"
    /\ UNCHANGED <<hostTy, value, output, output2, obj, adds>>

NextArray ==
    \/ \E element \in ArrayValues : AddElement(element)
    \/ EncodeArray
    \/ DecodeArray

SpecArray == InitArray /\ [][NextArray]_vars

----------------------------------------------------------------------------
(* Decoding containers: an object, array or table header in front of a     *)
(* sequence of whole fields, with or without a byte after the window       *)

MaxFields == 3

\* the fields the payloads are made of: the keys "a" and "b", the integers
\* 0, 1 and 2, the string "a", the null field and the array [1, 2]
KeyA == <<225, 97>>
KeyB == <<225, 98>>
Pieces ==
    {KeyA, KeyB, <<33, 0>>, <<33, 1>>, <<33, 2>>, <<97, 97>>, <<0>>, <<161, 4, 33, 1, 33, 2>>}

\* table payloads of four and five fields: a row count, one or two column
\* names, two value fields
TableSeqs ==
    {<<<<33, m>>, KeyA, <<33, 1>>, <<33, 2>>>> : m \in 0..2}
        \cup {<<<<33, m>>, KeyA, KeyB, <<33, 1>>, <<97, 97>>>> : m \in 0..2}

\* payloads: every sequence of up to MaxFields fields, the two-pair
\* sequences key, value, key, value, and the table payloads
FieldSeqs ==
    (UNION {[1..n -> Pieces] : n \in 0..MaxFields})
        \cup {<<k1, v1, k2, v2>> : k1 \in {KeyA, KeyB}, v1 \in {<<33, 1>>, <<97, 97>>},
                                    k2 \in {KeyA, KeyB}, v2 \in {<<33, 2>>, <<97, 97>>}}
        \cup TableSeqs

RECURSIVE Flatten(_)
Flatten(fs) == IF Len(fs) = 0 THEN <<>> ELSE Head(fs) \o Flatten(Tail(fs))

\* a normal field of the given type code with a one-byte length field
Frame(code, payload) == <<code * 16 + 1, Len(payload)>> \o payload

\* value keeps how the input was put together: the type code of the outer
\* field, its child fields (for a scalar, the field itself), the bytes after it
InitContainer ==
    /\ \/ \E code \in {OBJECT, ARRAY, TABLE}, fs \in FieldSeqs, tail \in {<<>>, <<33>>, KeyA} :
             /\ value = [code |-> code, fields |-> fs, tail |-> tail]
             /\ input = Frame(code, Flatten(fs)) \o tail
       \/ \E f \in {KeyA, KeyB, <<33, 1>>, <<97, 97>>, <<0>>} :
             /\ value = [code |-> Hi(f[1]), fields |-> <<f>>, tail |-> <<>>]
             /\ input = f
    /\ hostTy = Nil /\ output = Nil /\ output2 = Nil
    /\ res = Nil /\ obj = Nil /\ adds = 0
    /\ op = "init"

\* RionObject::from_slice on the input
ObjectFromSlice ==
    /\ op = "init"
    /\ res' = Call("RionObjectFromSlice", <<input>>)
    /\ op' = "RionObject::from_slice"
    /\ UNCHANGED <<input, hostTy, value, output, output2, obj, adds>>

\* RionObject::parse on the input
ObjectParse ==
    /\ op = "init"
    /\ res' = Call("RionObjectParse", <<input>>)
    /\ op' = "RionObject::parse"
    /\ UNCHANGED <<input, hostTy, value, output, output2, obj, adds>>

\* RionArray::parse on the input
ArrayParse ==
    /\ op = "init"
    /\ res' = Call("RionArrayParse", <<input>>)
    /\ op' = "RionArray::parse"
    /\ UNCHANGED <<input, hostTy, value, output, output2, obj, adds>>

\* RionTable::parse on the input
TableParse ==
    /\ op = "init"
    /\ res' = Call("RionTableParse", <<input>>)
    /\ op' = "RionTable::parse"
    /\ UNCHANGED <<input, hostTy, value, output, output2, obj, adds>>

\* the host types the containers are decoded into
\* enum E { a, b(u64) } and enum F { a, b(u64, u64) }
ContainerTypes ==
    { TMap(TString, TU64), TMap(TString, TString), TLeaf, TNode,
      TVec(TU64), TTuple(<<TU64, TU64>>), TTuple(<<TU64, TString>>),
      TEnum(<<NameA, NameB>>, <<"unit", "newtype">>, <<TUnit, TU64>>),
      TEnum(<<NameA, NameB>>, <<"unit", "tuple">>, <<TUnit, TTuple(<<TU64, TU64>>)>>) }

NextContainer ==
    \/ ObjectFromSlice
    \/ ObjectParse
    \/ ArrayParse
    \/ TableParse
    \/ \E t \in ContainerTypes : FromBytes(t)

SpecContainer == InitContainer /\ [][NextContainer]_vars

----------------------------------------------------------------------------
(* Serializing one map key into a sink that already holds bytes *)

\* the keys handed to serialize_key: strings of the lengths 0, 1, 15 and 16,
\* a unit variant, Some(string), and keys that are no strings
KeySamples ==
    {Sample(TString, VStr(StrOfLen(n))) : n \in {0, 1, 15, 16}}
    \cup {Sample(TU64, VInt(n)) : n \in {0, 300}}
    \cup {Sample(TI64, VInt(-1))}
    \cup {Sample(TBool, VBool(b)) : b \in BOOLEAN}
    \cup {Sample(TUnit, VUnit)}
    \cup {Sample(TOption(TString), x) : x \in {VNone, VSome(VStr(NameA))}}
    \cup {Sample(TVec(TU64), VSeq(xs)) : xs \in {<<>>, <<VInt(1)>>}}
    \cup {Sample(TVec(TString), VSeq(<<VStr(NameA)>>))}
    \cup {Sample(TTuple(<<TU8, TString>>), VSeq(<<VInt(10), VStr(NameA)>>))}
    \cup {Sample(TMap(TString, TU64), VMap(m)) :
            m \in {EmptyMap, MapInsert(EmptyMap, VStr(NameA), VInt(1))}}
    \cup {Sample(TLeaf, VStruct(<<VInt(1)>>))}
    \cup {Sample(TEnum(<<NameA, NameB>>, <<"unit", "newtype">>, <<TUnit, TU64>>), x) :
            x \in {VEnum(1, VUnit), VEnum(2, VInt(42))}}

\* the serializer as serialize_key finds it: after serialize_map at the top,
\* after an entry "a": 1 of the same map, and in a map that is the second
\* element of a sequence
KeySinks ==
    { start_container(NewSerializer, OBJECT),
      Emit(start_container(NewSerializer, OBJECT), <<225, 97, 33, 1>>),
      start_container(Emit(start_container(NewSerializer, ARRAY), <<33, 7>>), OBJECT) }

InitMapKey ==
    /\ \E smp \in KeySamples : hostTy = smp.ty /\ value = smp.val
    /\ obj \in KeySinks
    /\ input = <<>> /\ output = Nil /\ output2 = Nil /\ res = Nil /\ adds = 0
    /\ op = "init"

\* key.serialize(&mut serializer): the key written as a value
KeyAsValue ==
    /\ op = "init"
    /\ \E ord \in Orders : output2' = Call("Serialize", <<hostTy, value, obj, ord>>)
    /\ op' = "serialize"
    /\ UNCHANGED <<input, hostTy, value, output, res, obj, adds>>

\* SerializeMap::serialize_key(&key) on the same serializer
SerializeKey ==
    /\ op = "serialize"
    /\ \E ord \in Orders : res' = Call("serialize_key", <<hostTy, value, obj, ord>>)
    /\ op' = "serialize_key"
    /\ UNCHANGED <<input, hostTy, value, output, output2, obj, adds>>

\* to_bytes(&map) of the HashMap holding the key and the value 1
MapToBytes ==
    /\ op = "serialize_key"
    /\ output' = Call("to_bytes", <<TMap(hostTy, TU64),
                                    VMap(MapInsert(EmptyMap, value, VInt(1))),
                                    <<value, VStr(NameA)>> >>)
    /\ op' = "to_bytes"
    /\ UNCHANGED <<input, hostTy, value, output2, res, obj, adds>>

NextMapKey == KeyAsValue \/ SerializeKey \/ MapToBytes

SpecMapKey == InitMapKey /\ [][NextMapKey]_vars

----------------------------------------------------------------------------
(* One text through every constructor of a string or key field *)

\* longest text handed to the constructors
MaxTextLen == 17

\* texts of every length up to MaxTextLen: "bcd..." and "zzz..."
Texts ==
    {StrOfLen(n) : n \in 0..MaxTextLen} \cup {[i \in 1..n |-> 122] : n \in 1..MaxTextLen}

InitText ==
    /\ hostTy = TString
    /\ \E s \in Texts : value = VStr(s)
    /\ input = <<>> /\ output = Nil /\ output2 = Nil /\ res = Nil /\ obj = Nil
    /\ adds = 0
    /\ op = "init"

\* RionField::from(text: &str).encode()
FromStr ==
    /\ output = Nil
    /\ output' = [st |-> "ok", bytes |-> RionFieldEncode(RionFieldFromStr(value.s))]
    /\ op' = "From<&str>"
    /\ UNCHANGED <<input, hostTy, value, output2, res, obj, adds>>

\* RionField::from(text: String).encode()
FromString ==
    /\ output2 = Nil
    /\ output2' = [st |-> "ok", bytes |-> RionFieldEncode(RionFieldFromString(value.s))]
    /\ op' = "From<String>"
    /\ UNCHANGED <<input, hostTy, value, output, res, obj, adds>>

\* RionField::key(text.as_bytes()).encode()
KeyOfText ==
    /\ res = Nil
    /\ res' = [st |-> "ok", bytes |-> RionFieldEncode(RionFieldKey(value.s))]
    /\ op' = "RionField::key"
    /\ UNCHANGED <<input, hostTy, value, output, output2, obj, adds>>

\* to_bytes(&text)
TextToBytes ==
    /\ obj = Nil
    /\ obj' = Call("to_bytes", <<TString, value, <<>> >>)
    /\ op' = "to_bytes"
    /\ UNCHANGED <<input, hostTy, value, output, output2, res, adds>>

\* to_bytes(&map) of the HashMap holding the text as its key and the value 1;
\* input keeps the bytes returned, which are never empty
TextKeyToBytes ==
    /\ input = <<>>
    /\ LET r == Call("to_bytes", <<TMap(TString, TU64),
                                    VMap(MapInsert(EmptyMap, value, VInt(1))), <<value>> >>)
       IN r.st = "ok" /\ input' = r.bytes
    /\ op' = "to_bytes(map)"
    /\ UNCHANGED <<hostTy, value, output, output2, res, obj, adds>>

NextText == FromStr \/ FromString \/ KeyOfText \/ TextToBytes \/ TextKeyToBytes

SpecText == InitText /\ [][NextText]_vars

----------------------------------------------------------------------------
(* Building an integer field from a 64-bit value *)

\* the low bytes of a sampled value that are free; the bytes above them are
\* all 0x00 or all 0xFF
IntTailLen == 3

IntBytes == {0, 1, 41, 127, 128, 214, 255}

\* 64-bit values as to_be_bytes: small magnitudes of either sign, and the
\* ends of the ranges (i64::MIN, i64::MAX, 2^63 + 1, u64::MAX - 1)
Words ==
    { [i \in 1..(8 - Len(t)) |-> fill] \o t :
        fill \in {0, 255}, t \in UNION {[1..n -> IntBytes] : n \in 0..IntTailLen} }
    \cup { <<128, 0, 0, 0, 0, 0, 0, 0>>, <<127, 255, 255, 255, 255, 255, 255, 255>>,
           <<128, 0, 0, 0, 0, 0, 0, 1>>, <<255, 255, 255, 255, 255, 255, 255, 254>>,
           <<1, 0, 0, 0, 0, 0, 0, 0>>, <<0, 255, 0, 0, 0, 0, 0, 1>> }

InitInt ==
    /\ input \in Words
    /\ hostTy = Nil /\ value = Nil /\ output = Nil /\ output2 = Nil
    /\ res = Nil /\ obj = Nil /\ adds = 0
    /\ op = "init"

\* RionField::from(value: u64).encode()
FromU64 ==
    /\ output = Nil
    /\ output' = [st |-> "ok", bytes |-> RionFieldEncode(RionFieldFromU64Word(input))]
    /\ op' = "From<u64>"
    /\ UNCHANGED <<input, hostTy, value, output2, res, obj, adds>>

\* RionField::from(value: i64).encode()
FromI64 ==
    /\ output2 = Nil
    /\ output2' = [st |-> "ok", bytes |-> RionFieldEncode(RionFieldFromI64Word(input))]
    /\ op' = "From<i64>"
    /\ UNCHANGED <<input, hostTy, value, output, res, obj, adds>>

NextInt == FromU64 \/ FromI64

SpecInt == InitInt /\ [][NextInt]_vars

----------------------------------------------------------------------------
(* Decoding a negative-integer field *)

\* payloads of an Int64Negative field: one to three bytes, and eight bytes
NegPayloads ==
    (UNION {[1..n -> IntBytes] : n \in 1..IntTailLen}) \cup Words

InitNeg ==
    /\ input \in NegPayloads
    /\ hostTy = Nil /\ value = Nil /\ output = Nil /\ output2 = Nil
    /\ res = Nil /\ obj = Nil /\ adds = 0
    /\ op = "init"

\* i64::try_from(RionField::Short(Int64Negative, payload))
NegTryFrom ==
    /\ res = Nil
    /\ \E profile \in Profiles : res' = FieldAsI64Negative(input, profile)
    /\ op' = "i64::try_from"
    /\ UNCHANGED <<input, hostTy, value, output, output2, obj, adds>>

\* from_bytes::<i64> on the field: deserialize_short
NegDeserialize ==
    /\ output = Nil
    /\ \E profile \in Profiles : output' = deserialize_short_negative(input, profile)
    /\ op' = "deserialize_short"
    /\ UNCHANGED <<input, hostTy, value, output2, res, obj, adds>>

NextNeg == NegTryFrom \/ NegDeserialize

SpecNeg == InitNeg /\ [][NextNeg]_vars

----------------------------------------------------------------------------
(* Decoding an integer field as a narrow integer *)

\* u8, u16, u32, i8, i16, i32: signedness and width in bytes
NarrowTypes ==
    {[k |-> "narrow", signed |-> s, width |-> w] : s \in BOOLEAN, w \in {1, 2, 4}}

\* payloads of an integer field: one to three bytes, eight bytes, the ends of
\* the 32-bit ranges, and nine bytes (a short field holds up to fifteen)
NarrowPayloads ==
    (UNION {[1..n -> IntBytes] : n \in 1..IntTailLen}) \cup Words
    \cup { <<127, 255, 255, 255>>, <<128, 0, 0, 0>>, <<255, 255, 255, 255>>,
           <<1, 0, 0, 0, 0>>, <<0, 0, 0, 0, 0, 0, 0, 0, 1>>, <<1, 0, 0, 0, 0, 0, 0, 0, 0>> }

InitNarrow ==
    /\ input \in NarrowPayloads
    /\ value \in {[ty |-> "Int64Positive"], [ty |-> "Int64Negative"]}
    /\ hostTy = Nil /\ output = Nil /\ output2 = Nil
    /\ res = Nil /\ obj = Nil /\ adds = 0
    /\ op = "init"

\* T::try_from(field), which is also what deserialize_i8 .. deserialize_u32
\* hand to the visitor through parse_field
Narrow(t) ==
    /\ op = "init"
    /\ hostTy' = t
    /\ \E profile \in Profiles : res' = NarrowTryFrom(t, value.ty, input, profile)
    /\ op' = "try_from"
    /\ UNCHANGED <<input, value, output, output2, obj, adds>>

NextNarrow == \E t \in NarrowTypes : Narrow(t)

SpecNarrow == InitNarrow /\ [][NextNarrow]_vars

----------------------------------------------------------------------------
(* Building a date-time field *)

\* date-times: each component at the start and at the end of its range, the
\* sub-second part nothing, whole milliseconds, whole microseconds and less
DateTimes ==
    [year : {1970, 2024}, month : {1, 12}, day : {1, 28}, hour : {0, 23},
     minute : {0, 59}, second : {0, 59},
     nanosecond : {0, 1000000, 999000000, 1000, 999999000, 1, 999999999}]

InitDate ==
    /\ value \in DateTimes
    /\ input = <<>> /\ hostTy = Nil /\ output = Nil /\ output2 = Nil
    /\ res = Nil /\ obj = Nil /\ adds = 0
    /\ op = "init"

\* RionField::from(dt).encode()
FromDateTime ==
    /\ op = "init"
    /\ output' = [st |-> "ok", bytes |-> RionFieldEncode(RionFieldFromDateTime(value))]
    /\ op' = "From<DateTime<Utc>>"
    /\ UNCHANGED <<input, hostTy, value, output2, res, obj, adds>>

NextDate == FromDateTime

SpecDate == InitDate /\ [][NextDate]_vars

----------------------------------------------------------------------------
(* Opening containers, writing into them and closing them *)

\* most calls made on one serializer
MaxOps == 7

\* what is written between the calls: a two-byte integer field and a UTF-8
\* field of 130 bytes, two of which make a payload of more than 255 bytes
Chunks == {<<33, 1>>, RionFieldEncode(RionFieldFromStr([i \in 1..130 |-> 97]))}

InitFrame ==
    /\ obj = NewSerializer
    /\ input = <<>> /\ hostTy = Nil /\ value = Nil /\ output = Nil /\ output2 = Nil
    /\ res = Nil /\ adds = 0
    /\ op = "init"

\* Serializer::start_container
StartContainer(type_byte) ==
    /\ obj.st = "ok" /\ adds < MaxOps
    /\ obj' = start_container(obj, type_byte)
    /\ adds' = adds + 1
    /\ op' = "start_container"
    /\ UNCHANGED <<input, hostTy, value, output, output2, res>>

\* field.encode(&mut self.output)
WriteChunk(bytes) ==
    /\ obj.st = "ok" /\ adds < MaxOps
    /\ obj' = Emit(obj, bytes)
    /\ adds' = adds + 1
    /\ op' = "encode"
    /\ UNCHANGED <<input, hostTy, value, output, output2, res>>

\* Serializer::end_container
EndContainer ==
    /\ obj.st = "ok" /\ adds < MaxOps
    /\ obj' = end_container(obj)
    /\ adds' = adds + 1
    /\ op' = "end_container"
    /\ UNCHANGED <<input, hostTy, value, output, output2, res>>

NextFrame ==
    \/ \E type_byte \in {ARRAY, OBJECT} : StartContainer(type_byte)
    \/ \E bytes \in Chunks : WriteChunk(bytes)
    \/ EndContainer

SpecFrame == InitFrame /\ [][NextFrame]_vars

----------------------------------------------------------------------------------------------------------------------------------------
(* Serializing a host value one serde call at a time *)

\* The calls a Serialize impl (derived, or std's for Vec, tuples, HashMap
\* and Option) has yet to make on the serializer are kept in res.todo:
\*   "value": T::serialize(x, &mut serializer)
\*   "key":   SerializeMap::serialize_key(key)
\*   "end":   the end() of the compound that was begun, which calls
\*            end_container n times
ValueCall(t, x) == [c |-> "value", t |-> t, x |-> x]
KeyCall(t, x) == [c |-> "key", t |-> t, x |-> x]
EndCall(n) == [c |-> "end", n |-> n]

\* serialize_element / serialize_field of a tuple-like compound, in order
ValueCalls(tys, xs) == [i \in 1..Len(xs) |-> ValueCall(tys[i], xs[i])]

\* serialize_entry of a map: serialize_key, then serialize_value
EntryCalls(t, m, keys) ==
    [j \in 1..(2 * Len(keys)) |->
        IF j % 2 = 1 THEN KeyCall(t.key, keys[(j + 1) \div 2])
        ELSE ValueCall(t.of, m[keys[j \div 2]])]

\* SerializeStruct::serialize_field: self.serialize_key(key), the value
FieldCalls(t, xs) ==
    [j \in 1..(2 * Len(xs)) |->
        IF j % 2 = 1 THEN KeyCall(TString, VStr(t.names[(j + 1) \div 2]))
        ELSE ValueCall(t.tys[j \div 2], xs[j \div 2])]

\* an end() that closes one container whatever it opened
EndOnce(s, n) == end_container(s)

\* the end() of a compound: n calls of end_container
RECURSIVE EndContainers(_, _)
EndContainers(s, n) ==
    IF n = 0 \/ s.st # "ok" THEN s ELSE EndContainers(end_container(s), n - 1)

\* start_container(OBJECT); serialize_key(name.as_bytes()), the inherent one
KeyedObject(s, name) ==
    Emit(start_container(s, OBJECT), RionFieldEncode(RionFieldKey(name)))

ScalarKinds == {"bool", "u64", "u8", "i64", "i8", "string", "unit"}

\* values serialized call by call: the round-trip samples, and a Vec of
\* struct variants, three containers deep
StackSamples ==
    Samples
    \cup {Sample(TVec(TEnum(<<NameA, NameB>>, <<"struct", "unit">>, <<TLeaf, TUnit>>)), VSeq(xs)) :
            xs \in {<<VEnum(1, VStruct(<<VInt(1)>>))>>,
                    <<VEnum(2, VUnit), VEnum(1, VStruct(<<VInt(300)>>))>>}}

InitStack ==
    /\ \E smp \in StackSamples :
          /\ hostTy = smp.ty /\ value = smp.val
          /\ res = [st |-> "run", todo |-> <<ValueCall(smp.ty, smp.val)>>]
    /\ obj = NewSerializer
    /\ input = <<>> /\ output = Nil /\ output2 = Nil /\ adds = 0
    /\ op = "init"

Running == obj.st = "ok" /\ op # "to_bytes" /\ Len(res.todo) > 0
Next1 == res.todo[1]
Later == Tail(res.todo)

\* what every call leaves alone
StackFrame == UNCHANGED <<input, hostTy, value, output, output2, adds>>

\* serialize_bool, serialize_u*, serialize_i*, serialize_str, serialize_unit,
\* serialize_none, serialize_unit_variant: one field is written
SerializeScalar ==
    /\ Running /\ Next1.c = "value"
    /\ \/ Next1.t.k \in ScalarKinds
       \/ Next1.t.k = "option" /\ Next1.x.k = "none"
       \/ Next1.t.k = "enum" /\ Next1.t.kinds[Next1.x.variant] = "unit"
    /\ obj' = Serialize(Next1.t, Next1.x, obj, <<>>)
    /\ res' = [res EXCEPT !.todo = Later]
    /\ op' = "serialize_scalar"
    /\ StackFrame

\* serialize_some: value.serialize(self)
SerializeSome ==
    /\ Running /\ Next1.c = "value"
    /\ Next1.t.k = "option" /\ Next1.x.k = "some"
    /\ obj' = obj
    /\ res' = [res EXCEPT !.todo = <<ValueCall(Next1.t.of, Next1.x.some)>> \o Later]
    /\ op' = "serialize_some"
    /\ StackFrame

\* serialize_seq, and serialize_tuple, which calls it
SerializeSeq ==
    /\ Running /\ Next1.c = "value"
    /\ Next1.t.k \in {"vec", "tuple"}
    /\ obj' = start_container(obj, ARRAY)
    /\ LET tys == IF Next1.t.k = "vec" THEN [i \in 1..Len(Next1.x.xs) |-> Next1.t.of]
                  ELSE Next1.t.tys
       IN res' = [res EXCEPT !.todo = ValueCalls(tys, Next1.x.xs) \o <<EndCall(1)>> \o Later]
    /\ op' = "serialize_seq"
    /\ StackFrame

\* serialize_tuple_struct; SerializeTupleStruct::end
SerializeTupleStruct ==
    /\ Running /\ Next1.c = "value"
    /\ Next1.t.k = "tuple_struct"
    /\ obj' = start_container(KeyedObject(obj, Next1.t.name), ARRAY)
    /\ res' = [res EXCEPT !.todo = ValueCalls(Next1.t.tys, Next1.x.xs) \o <<EndCall(2)>> \o Later]
    /\ op' = "serialize_tuple_struct"
    /\ StackFrame

\* serialize_map; the HashMap hands out its entries in an order of its own
SerializeMap ==
    /\ Running /\ Next1.c = "value"
    /\ Next1.t.k = "map"
    /\ obj' = start_container(obj, OBJECT)
    /\ \E ord \in Orders :
          res' = [res EXCEPT !.todo = EntryCalls(Next1.t, Next1.x.m, KeyOrder(Next1.x.m, ord))
                                         \o <<EndCall(1)>> \o Later]
    /\ op' = "serialize_map"
    /\ StackFrame

\* serialize_struct, which calls serialize_map
SerializeStruct ==
    /\ Running /\ Next1.c = "value"
    /\ Next1.t.k = "struct"
    /\ obj' = start_container(obj, OBJECT)
    /\ res' = [res EXCEPT !.todo = FieldCalls(Next1.t, Next1.x.fs) \o <<EndCall(1)>> \o Later]
    /\ op' = "serialize_struct"
    /\ StackFrame

\* serialize_newtype_variant: Serializer::serialize_entry opens an Object,
\* writes the key, serializes the value and closes the Object
SerializeNewtypeVariant ==
    /\ Running /\ Next1.c = "value"
    /\ Next1.t.k = "enum" /\ Next1.t.kinds[Next1.x.variant] = "newtype"
    /\ obj' = KeyedObject(obj, Next1.t.names[Next1.x.variant])
    /\ res' = [res EXCEPT !.todo = <<ValueCall(Next1.t.tys[Next1.x.variant], Next1.x.p), EndCall(1)>>
                                     \o Later]
    /\ op' = "serialize_newtype_variant"
    /\ StackFrame

\* serialize_tuple_variant; SerializeTupleVariant::end
SerializeTupleVariant ==
    /\ Running /\ Next1.c = "value"
    /\ Next1.t.k = "enum" /\ Next1.t.kinds[Next1.x.variant] = "tuple"
    /\ obj' = start_container(KeyedObject(obj, Next1.t.names[Next1.x.variant]), ARRAY)
    /\ res' = [res EXCEPT !.todo = ValueCalls(Next1.t.tys[Next1.x.variant].tys, Next1.x.p.xs)
                                     \o <<EndCall(2)>> \o Later]
    /\ op' = "serialize_tuple_variant"
    /\ StackFrame

\* serialize_struct_variant; SerializeStructVariant::end
SerializeStructVariant ==
    /\ Running /\ Next1.c = "value"
    /\ Next1.t.k = "enum" /\ Next1.t.kinds[Next1.x.variant] = "struct"
    /\ obj' = start_container(KeyedObject(obj, Next1.t.names[Next1.x.variant]), OBJECT)
    /\ res' = [res EXCEPT !.todo = FieldCalls(Next1.t.tys[Next1.x.variant], Next1.x.p.fs)
                                     \o <<EndCall(2)>> \o Later]
    /\ op' = "serialize_struct_variant"
    /\ StackFrame

\* SerializeMap::serialize_key, also the key half of SerializeStruct's and
\* SerializeStructVariant's serialize_field
SerializeMapKey ==
    /\ Running /\ Next1.c = "key"
    /\ obj' = serialize_key(Next1.t, Next1.x, obj, <<>>)
    /\ res' = [res EXCEPT !.todo = Later]
    /\ op' = "serialize_key"
    /\ StackFrame

\* the end() of SerializeSeq, SerializeTuple, SerializeMap, SerializeStruct,
\* SerializeTupleStruct, SerializeTupleVariant and SerializeStructVariant,
\* and the end_container that closes serialize_entry
End ==
    /\ Running /\ Next1.c = "end"
    /\ obj' = EndContainers(obj, Next1.n)
    /\ res' = [res EXCEPT !.todo = Later]
    /\ op' = "end"
    /\ StackFrame

\* to_bytes returns: Ok(serializer.output) after the last call, the error of
\* the call that failed otherwise
Return ==
    /\ op # "to_bytes"
    /\ obj.st # "ok" \/ Len(res.todo) = 0
    /\ output' = IF obj.st = "ok" THEN [st |-> "ok", bytes |-> obj.output] ELSE obj
    /\ op' = "to_bytes"
    /\ UNCHANGED <<input, hostTy, value, output2, res, obj, adds>>

NextStack ==
    \/ SerializeScalar
    \/ SerializeSome
    \/ SerializeSeq
    \/ SerializeTupleStruct
    \/ SerializeMap
    \/ SerializeStruct
    \/ SerializeNewtypeVariant
    \/ SerializeTupleVariant
    \/ SerializeStructVariant
    \/ SerializeMapKey
    \/ End
    \/ Return

SpecStack == InitStack /\ [][NextStack]_vars

----------------
(* The format's description, claim by claim *)

\* the lead's field family as the format lays it out: by the high nibble
IsTinyLead(b) == Hi(b) = BOOL
IsShortLead(b) ==
    Hi(b) \in {INT64_POSITIVE, INT64_NEGATIVE, FLOAT, UTF8_SHORT, UTC_DATE_TIME, KEY_SHORT}
IsNormalLead(b) == Hi(b) \in {BYTES, UTF8, ARRAY, TABLE, OBJECT, KEY}

\* the bytes after the lead cannot hold what the lead declares: the L bytes
\* of a short payload or of a normal length field, or the payload whose
\* length the length field gives
Truncated(data) ==
    /\ Len(data) > 0
    /\ \/ /\ IsShortLead(data[1]) \/ IsNormalLead(data[1])
          /\ Lo(data[1]) > Len(data) - 1
       \/ /\ IsNormalLead(data[1])
          /\ Lo(data[1]) <= Len(data) - 1
          /\ BigEndian(SubSeq(data, 2, 1 + Lo(data[1]))) > Len(data) - 1 - Lo(data[1])

\* the number of bytes of the field a well-framed input starts with
OuterFieldLen(data) ==
    IF IsTinyLead(data[1]) THEN 1
    ELSE IF IsShortLead(data[1]) THEN 1 + Lo(data[1])
    ELSE 1 + Lo(data[1]) + BigEndian(SubSeq(data, 2, 1 + Lo(data[1])))

\* the input starts with a whole field of a defined type
Framed(data) ==
    /\ Len(data) > 0
    /\ IsTinyLead(data[1]) \/ IsShortLead(data[1]) \/ IsNormalLead(data[1])
    /\ ~Truncated(data)

\* C1: every sampled host value that to_bytes accepts is decoded by
\* from_bytes, from the bytes to_bytes gave, to a value equal to it
C1_RoundTrip ==
    op = "from_bytes" => (res.st = "ok" /\ res.val = value)

\* C2: RionField::parse and from_bytes, on any input and for any host type,
\* end with a value or with an Err; they never panic and never fail to end
C2_ErrorsAreValues ==
    op \in {"RionField::parse", "from_bytes"} => res.st \in {"ok", "err"}

\* C3: on an input whose lead declares more bytes than are left,
\* RionField::parse and from_bytes return an Err; and NormalField::parse,
\* handed a whole length field, returns an Err exactly when the length it
\* reads is greater than the number of bytes after the length field
C3_TruncationIsError ==
    /\ (op \in {"RionField::parse", "from_bytes"} /\ Truncated(input)) => res.st = "err"
    /\ (op = "NormalField::parse" /\ Lo(input[1]) <= Len(input) - 1) =>
            (res.st = "err" <=> Truncated(input))

\* C4: from_bytes, on an input that holds a whole field and then at least one
\* more byte, returns an Err and no value
C4_TrailingBytesRejected ==
    (op = "from_bytes" /\ Framed(input) /\ Len(input) > OuterFieldLen(input))
        => res.st = "err"

\* C5: LeadByte::try_from fails on the bytes 0x8L, 0x9L, 0xFL and on 0x1L with
\* L above 2, and succeeds on every other byte
C5_LeadDecoding ==
    op = "LeadByte::try_from" =>
        (res.st = "err" <=>
            \/ Hi(input[1]) \in {8, 9, 15}
            \/ (Hi(input[1]) = BOOL /\ Lo(input[1]) \notin {0, 1, 2}))

\* C6: the tiny fields 0x12, 0x11, 0x10 are true, false and null: to
\* RionField::parse Bool(Some(true)), Bool(Some(false)), Bool(None); to
\* from_bytes the bool true, the bool false, and the Option<bool> None
C6_TinyBool ==
    /\ op = "RionField::parse" =>
          /\ input = <<18>> => (res.st = "ok" /\ res.field = BoolField("True"))
          /\ input = <<17>> => (res.st = "ok" /\ res.field = BoolField("False"))
          /\ input = <<16>> => (res.st = "ok" /\ res.field = BoolField("None"))
    /\ (op = "from_bytes" /\ hostTy = TBool) =>
          /\ input = <<18>> => (res.st = "ok" /\ res.val = VBool(TRUE))
          /\ input = <<17>> => (res.st = "ok" /\ res.val = VBool(FALSE))
    /\ (op = "from_bytes" /\ hostTy = TOption(TBool)) =>
          /\ input = <<18>> => (res.st = "ok" /\ res.val = VSome(VBool(TRUE)))
          /\ input = <<17>> => (res.st = "ok" /\ res.val = VSome(VBool(FALSE)))
          /\ input = <<16>> => (res.st = "ok" /\ res.val = VNone)

\* the empty String, Vec and map, bare or under Some
IsEmptyValue(x) ==
    \/ x \in {VStr(<<>>), VSeq(<<>>), VMap(EmptyMap)}
    \/ x \in {VSome(VStr(<<>>)), VSome(VSeq(<<>>)), VSome(VMap(EmptyMap))}

\* C7: an empty String, Vec or map, bare or under Some, is encoded as one
\* lead byte with L = 0 and decoded from it to the value it was
C7_EmptyRoundTrip ==
    IsEmptyValue(value) =>
        /\ op = "to_bytes" =>
              (output.st = "ok" /\ Len(output.bytes) = 1 /\ Lo(output.bytes[1]) = 0)
        /\ op = "from_bytes" => (res.st = "ok" /\ res.val = value)

\* the lead of a null field: tiny null, or a normal field with L = 0
IsNullLead(b) == b = BOOL * 16 \/ (IsNormalLead(b) /\ Lo(b) = 0)

\* C8: deserialize_option, when the next lead is a null lead, yields None and
\* leaves the deserializer just after that one byte; on any other lead what
\* it yields is never None
C8_OptionDecoding ==
    (op = "deserialize_option" /\ Len(input) > 0) =>
        /\ IsNullLead(input[1]) =>
              (res.st = "ok" /\ res.val = VNone /\ res.rest = Drop(input, 1))
        /\ (~IsNullLead(input[1]) /\ res.st = "ok") => res.val # VNone

\* C9: encoding the decoded value gives the bytes that were decoded,
\* whichever way the maps are walked
C9_CanonicalForm ==
    op = "re_encode" => output2 = output

\* C10: the payload length in the header RionObject::encode writes is the
\* number of bytes of the key and value fields that follow it
C10_ObjectFraming ==
    (op = "encode" /\ output.st = "ok") =>
        BigEndian(SubSeq(output.bytes, 2, 1 + Lo(output.bytes[1])))
            = Len(output.bytes) - 1 - Lo(output.bytes[1])

\* C11: an object built by add_field from distinct keys comes back from
\* from_slice(encode()) as the same object
C11_ObjectRoundTrip ==
    (op = "from_slice" /\ Cardinality(DOMAIN obj.fields) = adds) =>
        (res.st = "ok" /\ res.obj = obj)

\* the bytes the elements of an array take when each is encoded on its own
RECURSIVE ElementsLen(_, _)
ElementsLen(elements, i) ==
    IF i > Len(elements) THEN 0
    ELSE Len(RionFieldEncode(elements[i])) + ElementsLen(elements, i + 1)

\* C12: an array built by add_element encodes with a lead whose high nibble
\* is 0xA and whose low nibble counts the length bytes, and
\* from_slice(encode()) succeeds with the same elements in the same order
C12_ArrayRoundTrip ==
    /\ op = "RionArray::encode" =>
            /\ Hi(output.bytes[1]) = ARRAY
            /\ Lo(output.bytes[1]) = Len(output.bytes) - 1 - ElementsLen(obj.elements, 1)
    /\ op = "RionArray::from_slice" =>
            (res.st = "ok" /\ res.arr.elements = obj.elements)

\* the input is an object of key / value pairs in which two pairs carry the
\* same key bytes
DuplicateKeyInput ==
    /\ value.code = OBJECT /\ value.tail = <<>>
    /\ Len(value.fields) = 4
    /\ value.fields[1] \in {KeyA, KeyB} /\ value.fields[3] = value.fields[1]
    /\ value.fields[2] \notin {KeyA, KeyB} /\ value.fields[4] \notin {KeyA, KeyB}

\* C13: an object payload with two pairs of equal key bytes is an error for
\* RionObject::from_slice and for from_bytes into a map
C13_DuplicateKey ==
    ( /\ DuplicateKeyInput
      /\ \/ op = "RionObject::from_slice"
         \/ (op = "from_bytes" /\ hostTy.k = "map") )
        => res.st = "err"

\* the input is an object in which a field that is not a key stands where
\* the key of a pair is expected
NonKeyInput ==
    /\ value.code = OBJECT /\ value.tail = <<>>
    /\ \E i \in 1..Len(value.fields) : i % 2 = 1 /\ value.fields[i] \notin {KeyA, KeyB}

\* C14: a field that is not a key in the place of a key is an error for
\* RionObject::from_slice and for from_bytes into a map or a struct
C14_ExpectedKey ==
    ( /\ NonKeyInput
      /\ \/ op = "RionObject::from_slice"
         \/ (op = "from_bytes" /\ hostTy.k \in {"map", "struct"}) )
        => res.st = "err"

\* C15: a successful parse of an object, array or table returns the bytes
\* that follow the declared payload window, no more and no less
C15_WindowClosure ==
    ( /\ op \in {"RionObject::parse", "RionArray::parse", "RionTable::parse"}
      /\ res.st = "ok" )
        => res.rest = value.tail

\* an array holding more elements than the tuple asked for has places
TupleOverSupplied ==
    /\ value.code = ARRAY /\ hostTy.k = "tuple"
    /\ Len(value.fields) > Len(hostTy.tys)

\* an object whose window holds one pair and then a field that is no key,
\* asked for as a map or a struct
ObjectUnread ==
    /\ value.code = OBJECT /\ hostTy.k \in {"map", "struct"}
    /\ Len(value.fields) = 3
    /\ value.fields[1] \in {KeyA, KeyB}
    /\ value.fields[2] \notin {KeyA, KeyB} /\ value.fields[3] \notin {KeyA, KeyB}

\* C16: from_bytes fails when the host type stops pulling before the window
\* of an array or object is exhausted
C16_ExactConsumption ==
    (op = "from_bytes" /\ value.tail = <<>> /\ (TupleOverSupplied \/ ObjectUnread))
        => res.st = "err"

\* the variant of the enum hostTy that the label field f names, 0 for none
VariantNamed(f) == Position(hostTy.names, Drop(f, 1))

\* the two shapes of an enum: a bare Key or UTF-8 label naming a unit
\* variant, or an object of one key and one value naming another variant
EnumLabelInput ==
    /\ value.code \in {KEY_SHORT, UTF8_SHORT}
    /\ VariantNamed(value.fields[1]) # 0
    /\ hostTy.kinds[VariantNamed(value.fields[1])] = "unit"

EnumObjectInput ==
    /\ value.code = OBJECT /\ Len(value.fields) = 2
    /\ value.fields[1] \in {KeyA, KeyB}
    /\ VariantNamed(value.fields[1]) # 0
    /\ hostTy.kinds[VariantNamed(value.fields[1])] # "unit"

\* C17: deserialize_enum takes a label as the unit variant of that name and
\* answers every input that has neither of the two shapes with an error
C17_EnumShapes ==
    (op = "from_bytes" /\ hostTy.k = "enum" /\ value.tail = <<>>) =>
        /\ EnumLabelInput =>
              (res.st = "ok" /\ res.val = VEnum(VariantNamed(value.fields[1]), VUnit))
        /\ (~EnumLabelInput /\ ~EnumObjectInput) => res.st = "err"

\* C18: a unit variant is serialized as one Key field holding the variant's
\* name: tag 0xE for a name of at most 15 bytes, 0xD for a longer one
C18_UnitVariantKey ==
    (op = "to_bytes" /\ hostTy.k = "enum" /\ hostTy.kinds[value.variant] = "unit") =>
        /\ output.st = "ok"
        /\ output.bytes = RionFieldEncode(RionFieldKey(hostTy.names[value.variant]))
        /\ Hi(output.bytes[1]) =
              (IF Len(hostTy.names[value.variant]) <= 15 THEN KEY_SHORT ELSE KEY)

\* the lead byte of the key written as a value: the first byte after what the
\* sink held before
KeyLead == output2.output[Len(obj.output) + 1]

\* C19: a key whose bytes begin with a UTF-8 lead has the high nibble of that
\* byte turned into the Key code of the same family and nothing else in the
\* sink changed; a key whose bytes begin with any other type that is no Key
\* makes serialize_key return InvalidType and to_bytes return an error that
\* carries no bytes
C19_MapKeyDiscipline ==
    (op \in {"serialize_key", "to_bytes"} /\ output2.st = "ok") =>
        /\ Hi(KeyLead) \in {UTF8, UTF8_SHORT} =>
              /\ res.st = "ok" /\ res.stack = output2.stack
              /\ Len(res.output) = Len(output2.output)
              /\ \A j \in 1..Len(res.output) :
                    res.output[j] =
                        IF j # Len(obj.output) + 1 THEN output2.output[j]
                        ELSE Lo(KeyLead) + 16 * (IF Hi(KeyLead) = UTF8 THEN KEY ELSE KEY_SHORT)
        /\ Hi(KeyLead) \notin {UTF8, UTF8_SHORT, KEY, KEY_SHORT} =>
              /\ res = Err("InvalidType")
              /\ op = "to_bytes" => (output.st = "err" /\ "bytes" \notin DOMAIN output)

\* a 16-byte string key written behind an earlier entry of the map
C19_Witness ==
    /\ op = "serialize_key" /\ res.st = "ok"
    /\ Len(obj.output) > 2
    /\ Hi(KeyLead) = UTF8 /\ Hi(res.output[Len(obj.output) + 1]) = KEY
    /\ Len(res.output) = Len(obj.output) + 18

\* the lead of a field of n bytes built under the short/normal rule: the short
\* tag with L = n up to 15 bytes, the normal tag from 16 bytes on
FollowsTagRule(lead, n, short, normal) ==
    IF n <= 15 THEN lead = short * 16 + n ELSE Hi(lead) = normal

\* C20: From<&str>, From<String>, RionField::key and the serializer all give
\* a text of n bytes the short tag with L = n when n <= 15 and the normal
\* tag when n >= 16, the lengths 0, 15 and 16 included, and From<&str> and
\* From<String> give the same bytes for the same text
C20_TagRule ==
    LET n == Len(value.s) IN
    /\ output.st = "ok" => FollowsTagRule(output.bytes[1], n, UTF8_SHORT, UTF8)
    /\ output2.st = "ok" => FollowsTagRule(output2.bytes[1], n, UTF8_SHORT, UTF8)
    /\ res.st = "ok" => FollowsTagRule(res.bytes[1], n, KEY_SHORT, KEY)
    /\ obj.st # "none" =>
          (obj.st = "ok" /\ FollowsTagRule(obj.bytes[1], n, UTF8_SHORT, UTF8))
    /\ input # <<>> => FollowsTagRule(input[3], n, KEY_SHORT, KEY)
    /\ (output.st = "ok" /\ output2.st = "ok") => output.bytes = output2.bytes

\* the payload p is the canonical form of the 64-bit magnitude m: p is the
\* low bytes of m, every byte of m above them is zero, and p either begins
\* with a non-zero byte or is the single byte 0x00
CanonicalMagnitude(p, m) ==
    /\ Len(p) \in 1..8
    /\ \A i \in 1..8 : m[i] = (IF i <= 8 - Len(p) THEN 0 ELSE p[i - (8 - Len(p))])
    /\ (p[1] = 0 => Len(p) = 1)

\* the encoded field is a short field of the type, L the payload length
IntField(bytes, type, m) ==
    /\ bytes[1] = type * 16 + (Len(bytes) - 1)
    /\ CanonicalMagnitude(Drop(bytes, 1), m)

\* C21: an integer field carries the big-endian magnitude with the leading
\* zero bytes removed, 0 as the single byte 0x00: n for a u64 and v >= 0 under
\* type 0x2, -v-1 (the m with m + v = -1, so every bit of v inverted) for
\* v < 0 under type 0x3; 0 is [0x21, 0x00] and -42 is [0x31, 0x29]
C21_CanonicalInteger ==
    /\ output.st = "ok" => IntField(output.bytes, INT64_POSITIVE, input)
    /\ output2.st = "ok" =>
          /\ input[1] < 128 => IntField(output2.bytes, INT64_POSITIVE, input)
          /\ input[1] >= 128 =>
                IntField(output2.bytes, INT64_NEGATIVE, [i \in 1..8 |-> 255 - input[i]])
          /\ IsZeroWord(input) => output2.bytes = <<33, 0>>
          /\ input = <<255, 255, 255, 255, 255, 255, 255, 214>> => output2.bytes = <<49, 41>>

\* i64::MIN: the magnitude 2^63 - 1 on eight bytes
C21_Witness ==
    /\ op = "From<i64>" /\ input = <<128, 0, 0, 0, 0, 0, 0, 0>>
    /\ output2.bytes = <<56, 127, 255, 255, 255, 255, 255, 255, 255>>

\* what a decoder of the magnitude m = payload owes: -(m + 1), every bit of m
\* inverted, for m up to 2^63 - 1 and an error for a larger m
DecodesNegative(r) ==
    IF PadWord(input)[1] < 128
    THEN r.st = "ok" /\ r.v = [i \in 1..8 |-> 255 - PadWord(input)[i]]
    ELSE r.st = "err"

\* C22: both decoders of an Int64Negative field of 1 to 8 payload bytes
\* return -(m + 1) for every magnitude m up to 2^63 - 1, i64::MIN included and
\* without overflow, and an error for every larger m
C22_NegativeDecoding ==
    /\ res.st # "none" => DecodesNegative(res)
    /\ output.st # "none" => DecodesNegative(output)

\* the magnitude the field carries, without its leading zero bytes
Magnitude == Drop(input, LeadingZeroBytes(input))

\* the field's value x lies in the range of the target type: a magnitude of
\* fewer than width bytes, or for an unsigned target of exactly width bytes,
\* or for a signed one of width bytes below 2^(8 * width - 1); a negative
\* field never fits an unsigned target
InRangeOfTarget ==
    IF hostTy.signed
    THEN \/ Len(Magnitude) < hostTy.width
         \/ Len(Magnitude) = hostTy.width /\ Magnitude[1] < 128
    ELSE value.ty = "Int64Positive" /\ Len(Magnitude) <= hostTy.width

\* the field's value as a 64-bit word
ValueWord ==
    IF value.ty = "Int64Positive" THEN PadWord(Magnitude)
    ELSE [i \in 1..8 |-> 255 - PadWord(Magnitude)[i]]

\* C23: decoding an integer field as u8, u16, u32, i8, i16 or i32 returns the
\* field's value when it lies in the target's range and an error when it does
\* not; a negative field decoded as an unsigned type is an error
C23_IntegerNarrowing ==
    op = "try_from" =>
        IF InRangeOfTarget THEN res.st = "ok" /\ res.v = ValueWord ELSE res.st = "err"

\* C24: when RionField::parse succeeds, the bytes it consumed are as many as
\* needed_bytes of the field it returns, also when the length field has
\* leading zero bytes or declares an empty payload with L > 0
C24_LengthPrecision ==
    (op = "RionField::parse" /\ res.st = "ok") =>
        Len(input) - Len(res.rest) = RionFieldNeededBytes(res.field)

\* the number of Key fields among fs from position i on, up to the first
\* field that is no key
RECURSIVE LeadingKeys(_, _)
LeadingKeys(fs, i) ==
    IF i > Len(fs) \/ fs[i] \notin {KeyA, KeyB} THEN 0 ELSE 1 + LeadingKeys(fs, i + 1)

\* a table window: a row count m, n column names, then value fields only
TableRowCount == value.fields[1][2]
TableColumnCount == LeadingKeys(value.fields, 2)
TableValueCount == Len(value.fields) - 1 - TableColumnCount
TableInput ==
    /\ value.code = TABLE /\ Len(value.fields) >= 1
    /\ value.fields[1] \in {<<33, 0>>, <<33, 1>>, <<33, 2>>}
    /\ \A i \in (2 + TableColumnCount)..Len(value.fields) : value.fields[i] \notin {KeyA, KeyB}

\* C25: RionTable::parse gives an empty table when the row count m or the
\* number n of column names is 0; otherwise it succeeds exactly when the window
\* holds m * n value fields after the column names, returns those m * n rows
\* and stops at the end of the window; fewer or more value fields are an error
C25_TableDecoding ==
    (op = "RionTable::parse" /\ TableInput) =>
        IF TableRowCount = 0 \/ TableColumnCount = 0
        THEN res.st = "ok" /\ res.table.rows = <<>>
        ELSE IF TableValueCount = TableRowCount * TableColumnCount
        THEN /\ res.st = "ok" /\ res.rest = value.tail
             /\ Len(res.table.rows) = TableRowCount * TableColumnCount
        ELSE res.st = "err"

\* the length of the sub-second tail the sub-second part calls for
SubSecondTail ==
    IF value.nanosecond = 0 THEN 0
    ELSE IF value.nanosecond % 1000000 = 0 THEN 2
    ELSE IF value.nanosecond % 1000 = 0 THEN 3
    ELSE 4

\* the components month .. second up to the last of them that is not zero
ComponentsKept ==
    CASE value.second # 0 -> 5
      [] value.minute # 0 -> 4
      [] value.hour # 0 -> 3
      [] OTHER -> 2

\* C26: the payload of a date-time field begins with the two bytes of the
\* year (in either order), goes on with month, day, hour, minute, second up
\* to the last non-zero component, ends with a sub-second tail of 0, 2, 3 or
\* 4 bytes, and is never longer than 11 bytes
C26_DateTimeLayout ==
    op = "From<DateTime<Utc>>" =>
        LET p == Drop(output.bytes, 1) IN
        /\ Len(p) = 2 + ComponentsKept + SubSecondTail
        /\ Len(p) <= 11
        /\ value.year \in {256 * p[1] + p[2], 256 * p[2] + p[1]}
        /\ p[3] = value.month /\ p[4] = value.day

\* the compact length field of p: nothing for 0, else the significant
\* big-endian bytes
LengthField(p) ==
    IF p = 0 THEN <<>>
    ELSE IF p < 256 THEN <<p>>
    ELSE IF p < 65536 THEN <<p \div 256, p % 256>>
    ELSE <<p \div 65536, (p \div 256) % 256, p % 256>>

\* the sink after a container opened at offset start with lead byte lead is
\* closed over the payload: what stood before start, the lead with L the
\* width of the length field, the length, the payload
Closed(sink, start) ==
    LET payload == Drop(sink, start + 2) IN
    Take(sink, start) \o <<sink[start + 1] + Len(LengthField(Len(payload)))>>
        \o LengthField(Len(payload)) \o payload

\* C27: end_container leaves the bytes before the container's start offset
\* unchanged and puts behind them the lead byte with L = bytes_needed(p), the
\* p of the payload on that many big-endian bytes, and the payload unchanged;
\* an empty container is its lead byte alone; the container is popped
C27_DeferredFraming ==
    [][(op' = "end_container" /\ Len(obj.stack) > 0) =>
          /\ obj'.st = "ok"
          /\ obj'.output = Closed(obj.output, obj.stack[Len(obj.stack)])
          /\ obj'.stack = Take(obj.stack, Len(obj.stack) - 1)]_vars

\* a container with a two-byte length closed inside a container that is then
\* itself closed with a two-byte length
C27_Witness ==
    /\ op = "end_container" /\ obj.st = "ok" /\ obj.stack = <<>>
    /\ Lo(obj.output[1]) = 2 /\ Lo(obj.output[4]) = 2
    /\ Len(obj.output) = 270

\* C28: from_bytes returns for every input and every host type: no sequence
\* visitor is left pulling an element that takes nothing from the window
C28_DecodingTerminates ==
    op = "from_bytes" => res.st # "diverge"

\* the end_container calls the compounds begun so far still owe
RECURSIVE OwedEnds(_)
OwedEnds(todo) ==
    IF Len(todo) = 0 THEN 0
    ELSE (IF todo[1].c = "end" THEN todo[1].n ELSE 0) + OwedEnds(Tail(todo))

\* C29: at every point of a serialization driven through serde, the stack
\* offsets increase strictly from bottom to top, each is below the sink
\* length and is where the lead byte of a container that is still open
\* stands; the open containers are exactly those whose end() is still to
\* come, so every begin is closed by as many end_container calls as it made
\* start_container calls; end_container never finds the stack empty; and the
\* stack is empty when to_bytes returns Ok
C29_StackInvariant ==
    /\ obj.st # "panic"
    /\ obj.st = "ok" =>
          /\ \A i \in 1..(Len(obj.stack) - 1) : obj.stack[i] < obj.stack[i + 1]
          /\ \A i \in 1..Len(obj.stack) :
                /\ obj.stack[i] < Len(obj.output)
                /\ obj.output[obj.stack[i] + 1] \in {ARRAY * 16, OBJECT * 16}
          /\ Len(obj.stack) = OwedEnds(res.todo)
    /\ (op = "to_bytes" /\ output.st = "ok") => obj.stack = <<>>

\* C29 witness: to_bytes has returned Ok for a Vec of struct variants, after
\* three containers were open at once and all were closed
C29_Witness ==
    /\ op = "to_bytes" /\ output.st = "ok"
    /\ hostTy.k = "vec" /\ hostTy.of.k = "enum"
    /\ obj.stack = <<>>
    /\ Len(output.bytes) > 10

\* C30: the bytes to_bytes writes for a tuple struct are accepted by
\* from_bytes at the same tuple struct type, which yields the fields that
\* were written, in order
C30_TupleStructShape ==
    (op = "from_bytes" /\ hostTy.k = "tuple_struct" /\ output.st = "ok") =>
        (res.st = "ok" /\ res.val = value)

====
